---- MODULE Spec2Model ----
(***************************************************************************)
(* A model of the crypto-kol-monitor signal pipeline:                      *)
(*   provider adapters (Birdeye, DexScreener) -> SignalAggregator          *)
(*   (mergeSignals, filterSignals) -> AIRouter (analyze, analyzeBatch)     *)
(*   -> MultiPlatformMonitor (start, stop, runScan).                       *)
(* AIAnalyzer is the rule-based backend of the router.                     *)
(* Each component has its own specification over the shared variables;     *)
(* the variables of the other components stay at their initial values.     *)
(***************************************************************************)
EXTENDS Integers, Sequences, FiniteSets, TLC

VARIABLES
    \* SignalAggregator.mergeSignals applied to a list of signals
    mIn, mOut, mOutRev, mOutAgain, mPc,
    \* SignalAggregator.filterSignals, its suppression map and the clock
    now, processedTokens, passIn, passOut, prevEmit, lastEmit, ticks, fPc,
    \* adapters' convertToSignal followed by mergeSignals
    rawBird, rawDex, fetched, merged, sPc,
    \* AIRouter
    config, deepseek, minimax, batch, idx, results, calls, analyzed,
    lastAnalyze, stats, invocations, rPc,
    \* MultiPlatformMonitor
    isRunning, cronJob, scans, started, liveTriggers, failedScans, unhandled, op,
    \* AIAnalyzer (the rule-based engine) applied to one signal
    ruleIn, ruleOut, rulePc,
    \* the notification loop of runScan
    minAiConfidence, analyses, nIdx, handed, failedSends, nPc,
    \* SignalAggregator.aggregateNewListings / aggregateTrendingSignals
    platformsEnabled, aggKind, answers, allSignals, aggOut, aggCalls, aggPc,
    \* steps 3 to 5 of runScan: the batch of a cycle
    newListings, trendingSignals, maxSignalsPerBatch, uniqueSignals, cycleBatch, cPc,
    \* BirdeyeService: the daily request budget
    requestCount, lastReset, today, requestsToday, lastCall, bPc,
    \* MiniMaxService / DeepSeekService normalizeResult applied to one parsed response
    parsed, service, normalized, zPc,
    \* scan cycles (runScan, manualScan) sharing one SignalAggregator
    scanConfig, cyc, passLog, cappedOut, lastPass,
    \* MultiPlatformMonitor.stats and the runScan cycles that write it
    monitorStats, runs

mergeVars  == <<mIn, mOut, mOutRev, mOutAgain, mPc>>
filterVars == <<now, processedTokens, passIn, passOut, prevEmit, lastEmit, ticks, fPc>>
scoreVars  == <<rawBird, rawDex, fetched, merged, sPc>>
routerVars == <<config, deepseek, minimax, batch, idx, results, calls, analyzed,
                lastAnalyze, stats, invocations, rPc>>
monitorVars == <<isRunning, cronJob, scans, started, liveTriggers, failedScans, unhandled, op>>
ruleVars == <<ruleIn, ruleOut, rulePc>>
notifyVars == <<minAiConfidence, analyses, nIdx, handed, failedSends, nPc>>
aggVars == <<platformsEnabled, aggKind, answers, allSignals, aggOut, aggCalls, aggPc>>
cycleVars == <<newListings, trendingSignals, maxSignalsPerBatch, uniqueSignals, cycleBatch, cPc>>
budgetVars == <<requestCount, lastReset, today, requestsToday, lastCall, bPc>>
normVars == <<parsed, service, normalized, zPc>>
scanVars == <<scanConfig, cyc, passLog, cappedOut, lastPass>>
statsVars == <<monitorStats, runs>>
vars == <<mergeVars, filterVars, scoreVars, routerVars, monitorVars, ruleVars, notifyVars, aggVars,
          cycleVars, budgetVars, normVars, scanVars, statsVars>>

\* what an operation of one component leaves alone: the other components
MergeFrame == UNCHANGED <<filterVars, scoreVars, routerVars, monitorVars, ruleVars, notifyVars, aggVars,
    cycleVars, budgetVars, normVars, scanVars, statsVars>>
FilterFrame == UNCHANGED <<mergeVars, scoreVars, routerVars, monitorVars, ruleVars, notifyVars, aggVars,
    cycleVars, budgetVars, normVars, scanVars, statsVars>>
ScoreFrame == UNCHANGED <<mergeVars, filterVars, routerVars, monitorVars, ruleVars, notifyVars, aggVars,
    cycleVars, budgetVars, normVars, scanVars, statsVars>>
RouterFrame == UNCHANGED <<mergeVars, filterVars, scoreVars, monitorVars, ruleVars, notifyVars, aggVars,
    cycleVars, budgetVars, normVars, scanVars, statsVars>>
MonitorFrame == UNCHANGED <<mergeVars, filterVars, scoreVars, routerVars, ruleVars, notifyVars, aggVars,
    cycleVars, budgetVars, normVars, scanVars, statsVars>>
RuleFrame == UNCHANGED <<mergeVars, filterVars, scoreVars, routerVars, monitorVars, notifyVars, aggVars,
    cycleVars, budgetVars, normVars, scanVars, statsVars>>
NotifyFrame == UNCHANGED <<mergeVars, filterVars, scoreVars, routerVars, monitorVars, ruleVars, aggVars,
    cycleVars, budgetVars, normVars, scanVars, statsVars>>
\* an aggregation runs filterSignals, which writes the suppression map
AggFrame == UNCHANGED <<mergeVars, scoreVars, routerVars, monitorVars, ruleVars, notifyVars,
    cycleVars, budgetVars, normVars, scanVars, statsVars>>

CycleFrame == UNCHANGED <<mergeVars, filterVars, scoreVars, routerVars, monitorVars, ruleVars,
    notifyVars, aggVars, budgetVars, normVars, scanVars, statsVars>>

(***************************************************************************)
(* Bounds of the model.                                                    *)
(***************************************************************************)
MaxGroup == 3
MaxPass == 2
MaxTicks == 2
MaxBatch == 2
MaxAnalyzeCalls == 3
MaxStarted == 3
MaxAggregations == 2
MaxCycleList == 2
MaxDays == 2
MaxScans == 2
MaxRuns == 2

(***************************************************************************)
(* JavaScript numbers that may be fractional (a score after averaging) are *)
(* exact rationals [n, d] in lowest terms, d > 0.                          *)
(***************************************************************************)
RECURSIVE GCD(_, _)
GCD(a, b) == IF b = 0 THEN a ELSE GCD(b, a % b)

Abs(x) == IF x < 0 THEN -x ELSE x

RatNorm(n, d) ==
    LET g == GCD(Abs(n), d) IN [n |-> n \div g, d |-> d \div g]

RatInt(i) == [n |-> i, d |-> 1]

RatAdd(a, b) == RatNorm(a.n * b.d + b.n * a.d, a.d * b.d)

RatDivInt(a, k) == RatNorm(a.n, a.d * k)

RatLt(a, b) == a.n * b.d < b.n * a.d

RatLe(a, b) == a.n * b.d <= b.n * a.d

\* Math.min(a, b)
RatMin(a, b) == IF RatLt(b, a) THEN b ELSE a

Min(a, b) == IF b < a THEN b ELSE a

Range(s) == {s[i] : i \in 1..Len(s)}

Reverse(s) == [i \in 1..Len(s) |-> s[Len(s) + 1 - i]]

RECURSIVE Flatten(_)
Flatten(ss) == IF ss = <<>> THEN <<>> ELSE Head(ss) \o Flatten(Tail(ss))

\* [...new Set(list)]: the distinct elements in the order of their first occurrence
RECURSIVE Dedup(_)
Dedup(s) ==
    IF s = <<>> THEN <<>>
    ELSE LET init == Dedup(SubSeq(s, 1, Len(s) - 1))
             last == s[Len(s)]
         IN IF last \in Range(init) THEN init ELSE Append(init, last)

\* Math.max(a, b)
RatMax(a, b) == IF RatLt(a, b) THEN b ELSE a

\* Math.max(...list) of a non-empty list
RECURSIVE MaxOf(_)
MaxOf(s) == IF Len(s) = 1 THEN s[1] ELSE RatMax(s[1], MaxOf(Tail(s)))

(***************************************************************************)
(* AggregatedSignal (types/platform.ts).                                   *)
(***************************************************************************)
Platforms == {"dexscreener", "birdeye"}
Urgencies == {"low", "medium", "high", "critical"}
RiskLevels == {"low", "medium", "high", "extreme"}

urgencyPriority(u) ==
    CASE u = "critical" -> 4 [] u = "high" -> 3 [] u = "medium" -> 2 [] OTHER -> 1

riskPriority(r) ==
    CASE r = "extreme" -> 4 [] r = "high" -> 3 [] r = "medium" -> 2 [] OTHER -> 1

\* `${signal.chain}-${signal.tokenAddress}`
TokenKey(s) == <<s.chain, s.tokenAddress>>

SignalOf(platform, chain, addr, score, urgency, risk, factors, vs, ps, liq, vol) ==
    [ id |-> <<platform, addr>>,
      tokenAddress |-> addr,
      chain |-> chain,
      token |-> [liquidityUsd |-> liq, volume24h |-> vol],
      score |-> RatInt(score),
      urgency |-> urgency,
      sources |-> <<platform>>,
      metrics |-> [ platformCount |-> 1,
                    confirmingPlatforms |-> <<platform>>,
                    volumeScore |-> vs, priceScore |-> ps,
                    socialScore |-> RatInt(0), whaleScore |-> RatInt(0) ],
      riskLevel |-> risk,
      riskFactors |-> factors ]

\* a signal with whole-numbered sub-scores, as the pools below list them
MkSignal(platform, chain, addr, score, urgency, risk, factors, vs, ps, liq, vol) ==
    SignalOf(platform, chain, addr, score, urgency, risk, factors,
             RatInt(vs), RatInt(ps), liq, vol)

(***************************************************************************)
(* SignalAggregator.mergeSignals                                           *)
(***************************************************************************)
\* the keys of tokenMap, in insertion order
RECURSIVE GroupKeys(_)
GroupKeys(signals) ==
    IF signals = <<>> THEN <<>>
    ELSE LET init == GroupKeys(SubSeq(signals, 1, Len(signals) - 1))
             k == TokenKey(signals[Len(signals)])
         IN IF k \in Range(init) THEN init ELSE Append(init, k)

GroupOf(signals, key) == SelectSeq(signals, LAMBDA s : TokenKey(s) = key)

\* confirmingPlatforms.push(...signal.metrics.confirmingPlatforms) over the group
GroupPlatforms(group) ==
    Flatten([i \in 1..Len(group) |-> group[i].metrics.confirmingPlatforms])

PlatformBonus(confirmingPlatforms) ==
    Min((Len(confirmingPlatforms) - 1) * 10, 20)

RECURSIVE TotalScore(_)
TotalScore(group) ==
    IF group = <<>> THEN RatInt(0)
    ELSE RatAdd(TotalScore(SubSeq(group, 1, Len(group) - 1)), group[Len(group)].score)

AvgScore(group) == RatDivInt(TotalScore(group), Len(group))

FinalScoreUncapped(group) ==
    RatAdd(AvgScore(group), RatInt(PlatformBonus(GroupPlatforms(group))))

FinalScore(group) ==
    RatMin(RatAdd(AvgScore(group), RatInt(PlatformBonus(GroupPlatforms(group)))),
           RatInt(100))

RECURSIVE MaxUrgency(_)
MaxUrgency(group) ==
    IF group = <<>> THEN "low"
    ELSE LET m == MaxUrgency(SubSeq(group, 1, Len(group) - 1))
             u == group[Len(group)].urgency
         IN IF urgencyPriority(u) > urgencyPriority(m) THEN u ELSE m

RECURSIVE HighestRisk(_)
HighestRisk(group) ==
    IF group = <<>> THEN "low"
    ELSE LET m == HighestRisk(SubSeq(group, 1, Len(group) - 1))
             r == group[Len(group)].riskLevel
         IN IF riskPriority(r) > riskPriority(m) THEN r ELSE m

AllRiskFactors(group) ==
    Dedup(Flatten([i \in 1..Len(group) |-> group[i].riskFactors]))

MergedMetricsFromBase(group) ==
    LET cp == GroupPlatforms(group) IN
    [ platformCount |-> Len(cp),
      confirmingPlatforms |-> Dedup(cp),
      volumeScore |-> group[1].metrics.volumeScore,
      priceScore |-> group[1].metrics.priceScore,
      socialScore |-> group[1].metrics.socialScore,
      whaleScore |-> group[1].metrics.whaleScore ]

MergedMetrics(group) ==
    LET cp == GroupPlatforms(group) IN
    [ platformCount |-> Len(cp),
      confirmingPlatforms |-> Dedup(cp),
      volumeScore |-> MaxOf([i \in 1..Len(group) |-> group[i].metrics.volumeScore]),
      priceScore |-> MaxOf([i \in 1..Len(group) |-> group[i].metrics.priceScore]),
      socialScore |-> MaxOf([i \in 1..Len(group) |-> group[i].metrics.socialScore]),
      whaleScore |-> MaxOf([i \in 1..Len(group) |-> group[i].metrics.whaleScore]) ]

MergeGroup(key, group) ==
    IF Len(group) = 1 THEN group[1]
    ELSE [ group[1] EXCEPT
             !.id = <<"merged", key>>,
             !.score = FinalScore(group),
             !.urgency = MaxUrgency(group),
             !.sources = Flatten([i \in 1..Len(group) |-> group[i].sources]),
             !.metrics = MergedMetrics(group),
             !.riskLevel = HighestRisk(group),
             !.riskFactors = AllRiskFactors(group) ]

mergeSignals(signals) ==
    LET keys == GroupKeys(signals) IN
    [i \in 1..Len(keys) |-> MergeGroup(keys[i], GroupOf(signals, keys[i]))]

(***************************************************************************)
(* Initial (idle) values of each component's variables.                    *)
(***************************************************************************)
MergeIdle ==
    /\ mIn = <<>> /\ mOut = <<>> /\ mOutRev = <<>> /\ mOutAgain = <<>>
    /\ mPc = "idle"

(***************************************************************************)
(* mergeSignals as a function of its input list: the list is drawn from a  *)
(* pool of signals of two tokens, as two adapters report them, and merged  *)
(* in the given order, in the reverse order, and merged again with itself. *)
(***************************************************************************)
MergePool ==
    { MkSignal("dexscreener", "solana", "X", 70, "medium", "low", <<"thin">>, 30, 10, 60000, 200000),
      MkSignal("birdeye", "solana", "X", 74, "high", "high", <<"thin", "young">>, 20, 40, 60000, 200000),
      MkSignal("birdeye", "solana", "X", 75, "critical", "extreme", <<"unverified">>, 50, 0, 3000, 500),
      MkSignal("dexscreener", "solana", "X", 100, "critical", "medium", <<>>, 100, 100, 60000, 600000),
      MkSignal("birdeye", "solana", "X", 50, "low", "low", <<>>, 0, 0, 60000, 0),
      MkSignal("dexscreener", "solana", "Y", 85, "high", "low", <<"young">>, 10, 60, 60000, 200000),
      MkSignal("birdeye", "solana", "Y", 60, "medium", "medium", <<"thin">>, 70, 5, 60000, 200000) }

SeqsUpTo(S, n) == UNION {[1..k -> S] : k \in 0..n}

\* DexScreener reports a token at most once per call (deduplicatePairs);
\* Birdeye's list is taken as the provider sends it
DexOncePerToken(signals) ==
    \A i, j \in 1..Len(signals) :
      (/\ i # j
       /\ signals[i].sources = <<"dexscreener">>
       /\ signals[j].sources = <<"dexscreener">>) => TokenKey(signals[i]) # TokenKey(signals[j])

MergeInit ==
    /\ mIn \in {s \in SeqsUpTo(MergePool, MaxGroup) : DexOncePerToken(s)}
    /\ mOut = <<>> /\ mOutRev = <<>> /\ mOutAgain = <<>>
    /\ mPc = "input"

\* mergeSignals(allSignals)
Merge ==
    /\ MergeFrame
    /\ mPc = "input"
    /\ mOut' = mergeSignals(mIn)
    /\ mPc' = "merged"
    /\ UNCHANGED <<mIn, mOutRev, mOutAgain>>

\* mergeSignals on the same signals in the reverse order
MergeReversed ==
    /\ MergeFrame
    /\ mPc = "merged"
    /\ mOutRev' = mergeSignals(Reverse(mIn))
    /\ mPc' = "reversed"
    /\ UNCHANGED <<mIn, mOut, mOutAgain>>

\* mergeSignals([M, M]) for each signal M of the first result
MergeAgain ==
    /\ MergeFrame
    /\ mPc = "reversed"
    /\ mOutAgain' = [i \in 1..Len(mOut) |-> mergeSignals(<<mOut[i], mOut[i]>>)[1]]
    /\ mPc' = "again"
    /\ UNCHANGED <<mIn, mOut, mOutRev>>

MergeNext == Merge \/ MergeReversed \/ MergeAgain

(***************************************************************************)
(* SignalAggregator.filterSignals and the suppression map processedTokens  *)
(* (a Map from token key to the time, in ms, the key last passed).         *)
(***************************************************************************)
minConfidenceScore == 60
duplicateTokenThreshold == 60
extremeRiskMinScore == 80
deadLiquidityUsd == 5000
deadVolume24h == 1000
MsPerMinute == 60000
RetentionMs == 86400000

EmptyMap == [k \in {} |-> 0]

MapSet(m, k, v) == [x \in DOMAIN m \cup {k} |-> IF x = k THEN v ELSE m[x]]

\* 1. signal.score < this.config.minConfidenceScore
LowConfidence(signal) == RatLt(signal.score, RatInt(minConfidenceScore))

\* 2. lastProcessed is set (and truthy) and less than the threshold ago:
\*    (now - lastProcessed) / (1000 * 60) < duplicateTokenThreshold
IsDuplicate(signal, processed, t) ==
    /\ TokenKey(signal) \in DOMAIN processed
    /\ processed[TokenKey(signal)] # 0
    /\ t - processed[TokenKey(signal)] < duplicateTokenThreshold * MsPerMinute

ExtremeRiskInclusive(signal) ==
    signal.riskLevel = "extreme" /\ RatLe(signal.score, RatInt(extremeRiskMinScore))

\* 3. signal.riskLevel === 'extreme' && signal.score < 80
ExtremeRisk(signal) ==
    signal.riskLevel = "extreme" /\ RatLt(signal.score, RatInt(extremeRiskMinScore))

DeadTokenBelowFloorOnly(signal) ==
    signal.token.liquidityUsd < deadLiquidityUsd - 1 /\ signal.token.volume24h < deadVolume24h - 1

\* 4. signal.token.liquidityUsd < 5000 && signal.token.volume24h < 1000
DeadToken(signal) ==
    signal.token.liquidityUsd < deadLiquidityUsd /\ signal.token.volume24h < deadVolume24h

\* the body of the loop for one signal: acc is [out, processed]
FilterOneNoMark(acc, signal, t) ==
    IF \/ LowConfidence(signal)
       \/ IsDuplicate(signal, acc.processed, t)
       \/ ExtremeRisk(signal)
       \/ DeadToken(signal)
    THEN acc
    ELSE [out |-> Append(acc.out, signal), processed |-> acc.processed]

\* the loop body with the key recorded before the risk and dead-token tests
FilterOneMarksBeforeRiskTest(acc, signal, t) ==
    IF LowConfidence(signal) \/ IsDuplicate(signal, acc.processed, t) THEN acc
    ELSE IF ExtremeRisk(signal) \/ DeadToken(signal)
    THEN [out |-> acc.out, processed |-> MapSet(acc.processed, TokenKey(signal), t)]
    ELSE [out |-> Append(acc.out, signal),
          processed |-> MapSet(acc.processed, TokenKey(signal), t)]

FilterOne(acc, signal, t) ==
    IF \/ LowConfidence(signal)
       \/ IsDuplicate(signal, acc.processed, t)
       \/ ExtremeRisk(signal)
       \/ DeadToken(signal)
    THEN acc
    ELSE [out |-> Append(acc.out, signal),
          processed |-> MapSet(acc.processed, TokenKey(signal), t)]

RECURSIVE FilterLoop(_, _, _)
FilterLoop(signals, processed, t) ==
    IF signals = <<>> THEN [out |-> <<>>, processed |-> processed]
    ELSE FilterOne(FilterLoop(SubSeq(signals, 1, Len(signals) - 1), processed, t),
                   signals[Len(signals)], t)

cleanupProcessedTokensKeepsAll(processed, t) == processed

\* cleanupProcessedTokens(now): delete the entries with timestamp < now - 24h
cleanupProcessedTokens(processed, t) ==
    [k \in {x \in DOMAIN processed : ~(processed[x] < t - RetentionMs)} |-> processed[k]]

\* filterSignals(signals) at time t: [out, processed]
filterSignals(signals, processed, t) ==
    LET r == FilterLoop(signals, processed, t) IN
    [out |-> r.out, processed |-> cleanupProcessedTokens(r.processed, t)]

FilterIdle ==
    /\ now = 1 /\ processedTokens = EmptyMap
    /\ passIn = <<>> /\ passOut = <<>>
    /\ prevEmit = EmptyMap /\ lastEmit = EmptyMap
    /\ ticks = 0 /\ fPc = "idle"

(***************************************************************************)
(* Filter passes of one aggregator over time.  The signals handed to a     *)
(* pass are drawn from a pool around the filter's thresholds; the clock    *)
(* (Date.now(), ms) advances between passes.  prevEmit and lastEmit record *)
(* for each key the time it last survived a pass, before and after the     *)
(* latest pass; they are never pruned.                                     *)
(***************************************************************************)
FilterPool ==
    { MkSignal("dexscreener", "solana", "X", 59, "low", "low", <<>>, 0, 0, 60000, 200000),
      MkSignal("dexscreener", "solana", "X", 60, "medium", "low", <<>>, 0, 0, 60000, 200000),
      MkSignal("dexscreener", "solana", "X", 79, "high", "extreme", <<>>, 0, 0, 60000, 200000),
      MkSignal("dexscreener", "solana", "X", 80, "high", "extreme", <<>>, 0, 0, 60000, 200000),
      MkSignal("dexscreener", "solana", "X", 81, "high", "extreme", <<>>, 0, 0, 60000, 200000),
      MkSignal("birdeye", "solana", "Y", 79, "high", "high", <<>>, 0, 0, 4999, 1000),
      MkSignal("birdeye", "solana", "Y", 85, "high", "extreme", <<>>, 0, 0, 4999, 999) }

TickSteps == {1, 3599999, 86400000}

\* new SignalAggregator(): the suppression map is empty
FilterInit == FilterIdle

\* time passes between two calls
Tick ==
    /\ FilterFrame
    /\ fPc = "idle"
    /\ ticks < MaxTicks
    /\ \E d \in TickSteps : now' = now + d
    /\ ticks' = ticks + 1
    /\ UNCHANGED <<processedTokens, passIn, passOut, prevEmit, lastEmit, fPc>>

RECURSIVE MarkAll(_, _, _)
MarkAll(m, sigs, t) ==
    IF sigs = <<>> THEN m
    ELSE MapSet(MarkAll(m, Tail(sigs), t), TokenKey(Head(sigs)), t)

\* const filtered = this.filterSignals(merged)
FilterPass ==
    /\ FilterFrame
    /\ fPc = "idle"
    /\ \E signals \in SeqsUpTo(FilterPool, MaxPass) :
         LET r == filterSignals(signals, processedTokens, now) IN
         /\ passIn' = signals
         /\ passOut' = r.out
         /\ processedTokens' = r.processed
         /\ prevEmit' = lastEmit
         /\ lastEmit' = MarkAll(lastEmit, r.out, now)
    /\ fPc' = "returned"
    /\ UNCHANGED <<now, ticks>>

\* the caller is done with the result
FilterReturn ==
    /\ FilterFrame
    /\ fPc = "returned"
    /\ passIn' = <<>> /\ passOut' = <<>> /\ prevEmit' = EmptyMap
    /\ fPc' = "idle"
    /\ UNCHANGED <<now, processedTokens, lastEmit, ticks>>

FilterNext == Tick \/ FilterPass \/ FilterReturn

(***************************************************************************)
(* The adapters' convertToSignal.  A raw token is the normalized record    *)
(* the adapter works on; ages are in minutes (ageHours = ageMinutes / 60). *)
(***************************************************************************)
NewTokenMaxAgeMinutes == 1440

\* score = 50 plus the bonuses, before Math.min(score, 100)
BirdeyeRawScore(raw) ==
    50 + (IF raw.volume24h > 100000 THEN 15 ELSE 0)
       + (IF raw.volume24h > 500000 THEN 10 ELSE 0)
       + (IF raw.liquidity > 50000 THEN 10 ELSE 0)
       + (IF raw.priceChange24h > 50 THEN 15 ELSE 0)
       + (IF raw.priceChange24h > 100 THEN 10 ELSE 0)
       + (IF raw.ageMinutes <= NewTokenMaxAgeMinutes THEN 10 ELSE 0)
       + (IF raw.holderCount > 1000 THEN 5 ELSE 0)

BirdeyeScore(raw) == Min(BirdeyeRawScore(raw), 100)

BirdeyeUrgency(raw) ==
    LET score == BirdeyeScore(raw)
        isNew == raw.ageMinutes <= NewTokenMaxAgeMinutes
    IN IF score >= 90 \/ (isNew /\ raw.volume24h > 100000) THEN "critical"
       ELSE IF score >= 75 THEN "high"
       ELSE IF score >= 60 THEN "medium"
       ELSE "low"

\* the bands of BirdeyeService.assessRisk that trigger: <<points, factor>>
BirdeyeRiskBands(raw) ==
    (IF raw.ageMinutes < 60 THEN <<<<30, "age<1h">>>>
     ELSE IF raw.ageMinutes < 360 THEN <<<<20, "age<6h">>>>
     ELSE IF raw.ageMinutes < 1440 THEN <<<<10, "age<24h">>>>
     ELSE <<>>)
    \o (IF raw.liquidity < 10000 THEN <<<<25, "liquidity<10k">>>>
        ELSE IF raw.liquidity < 50000 THEN <<<<15, "liquidity<50k">>>>
        ELSE <<>>)
    \o (IF raw.marketCap < 100000 THEN <<<<20, "marketCap<100k">>>> ELSE <<>>)
    \o (IF raw.holderCount < 100 THEN <<<<15, "holders<100">>>> ELSE <<>>)
    \o (IF ~raw.isVerified THEN <<<<10, "unverified">>>> ELSE <<>>)

RECURSIVE BandSum(_)
BandSum(bands) == IF bands = <<>> THEN 0 ELSE Head(bands)[1] + BandSum(Tail(bands))

BandFactors(bands) == [i \in 1..Len(bands) |-> bands[i][2]]

BirdeyeRiskLevel(raw) ==
    LET riskScore == BandSum(BirdeyeRiskBands(raw))
    IN IF riskScore >= 70 THEN "extreme"
       ELSE IF riskScore >= 45 THEN "high"
       ELSE IF riskScore >= 25 THEN "medium"
       ELSE "low"

\* Math.min(volume24h / 10000, 100)
VolumeScore(volume24h) == RatMin(RatDivInt(RatInt(volume24h), 10000), RatInt(100))

\* priceChange24h > 0 ? Math.min(priceChange24h, 100) : 0
PriceScore(priceChange24h) ==
    IF priceChange24h > 0 THEN RatInt(Min(priceChange24h, 100)) ELSE RatInt(0)

BirdeyeConvertToSignal(raw) ==
    SignalOf("birdeye", "solana", raw.address, BirdeyeScore(raw), BirdeyeUrgency(raw),
             BirdeyeRiskLevel(raw), BandFactors(BirdeyeRiskBands(raw)),
             VolumeScore(raw.volume24h), PriceScore(raw.priceChange24h),
             raw.liquidity, raw.volume24h)

DexRawScore(pair) ==
    50 + (IF pair.volume24h > 100000 THEN 20 ELSE 0)
       + (IF pair.volume24h > 500000 THEN 15 ELSE 0)
       + (IF pair.liquidityUsd > 50000 THEN 10 ELSE 0)
       + (IF pair.ageMinutes <= NewTokenMaxAgeMinutes THEN 10 ELSE 0)
       + (IF pair.priceChange24h > 50 THEN 15 ELSE 0)

DexScore(pair) == Min(DexRawScore(pair), 100)

\* the urgency is decided on the score before Math.min(score, 100)
DexUrgency(pair) ==
    LET score == DexRawScore(pair)
    IN IF score >= 90 THEN "critical"
       ELSE IF score >= 75 THEN "high"
       ELSE IF score >= 60 THEN "medium"
       ELSE "low"

DexRiskBands(pair) ==
    (IF pair.liquidityUsd < 10000 THEN <<<<30, "liquidity<10k">>>>
     ELSE IF pair.liquidityUsd < 50000 THEN <<<<15, "liquidity<50k">>>>
     ELSE <<>>)
    \o (IF pair.sells > pair.buys * 2 THEN <<<<25, "sell pressure">>>> ELSE <<>>)
    \o (IF pair.marketCap < 100000 THEN <<<<20, "marketCap<100k">>>> ELSE <<>>)
    \o (IF pair.ageMinutes < 60 THEN <<<<20, "age<1h">>>> ELSE <<>>)

DexRiskLevel(pair) ==
    LET riskScore == BandSum(DexRiskBands(pair))
    IN IF riskScore >= 60 THEN "extreme"
       ELSE IF riskScore >= 40 THEN "high"
       ELSE IF riskScore >= 20 THEN "medium"
       ELSE "low"

DexConvertToSignal(pair) ==
    SignalOf("dexscreener", pair.chainId, pair.address, DexScore(pair), DexUrgency(pair),
             DexRiskLevel(pair), BandFactors(DexRiskBands(pair)),
             VolumeScore(pair.volume24h), PriceScore(pair.priceChange24h),
             pair.liquidityUsd, pair.volume24h)

NoRaw == [address |-> "none"]

ScoreIdle ==
    /\ rawBird = NoRaw /\ rawDex = NoRaw
    /\ fetched = <<>> /\ merged = <<>> /\ sPc = "idle"

(***************************************************************************)
(* aggregateNewListings on one token reported by both adapters:            *)
(* DexScreener's signal, then Birdeye's, then mergeSignals(allSignals).    *)
(***************************************************************************)
BirdeyeRaws ==
    [ address : {"X"},
      volume24h : {100000, 150000, 600000},
      liquidity : {3000, 50001},
      priceChange24h : {0, 51, 101},
      ageMinutes : {30, 3000},
      holderCount : {50, 1001},
      marketCap : {50000},
      isVerified : {FALSE} ]

DexRaws ==
    [ address : {"X", "Y"},
      chainId : {"solana"},
      volume24h : {100000, 150000, 600000},
      liquidityUsd : {3000, 50001},
      priceChange24h : {0, 51},
      ageMinutes : {30, 3000},
      marketCap : {50000, 200000},
      buys : {10},
      sells : {5} ]

ScoreInit ==
    /\ rawBird \in BirdeyeRaws /\ rawDex \in DexRaws
    /\ fetched = <<>> /\ merged = <<>> /\ sPc = "dexscreener"

\* allSignals.push(...dexSignals)
DexFetch ==
    /\ ScoreFrame
    /\ sPc = "dexscreener"
    /\ fetched' = Append(fetched, DexConvertToSignal(rawDex))
    /\ sPc' = "birdeye"
    /\ UNCHANGED <<rawBird, rawDex, merged>>

\* allSignals.push(...birdSignals)
BirdeyeFetch ==
    /\ ScoreFrame
    /\ sPc = "birdeye"
    /\ fetched' = Append(fetched, BirdeyeConvertToSignal(rawBird))
    /\ sPc' = "merge"
    /\ UNCHANGED <<rawBird, rawDex, merged>>

\* const merged = this.mergeSignals(allSignals)
MergeFetched ==
    /\ ScoreFrame
    /\ sPc = "merge"
    /\ merged' = mergeSignals(fetched)
    /\ sPc' = "merged"
    /\ UNCHANGED <<rawBird, rawDex, fetched>>

ScoreNext == DexFetch \/ BirdeyeFetch \/ MergeFetched

(***************************************************************************)
(* AIRouter: selectProvider, analyzeWithProvider, analyze, analyzeBatch,   *)
(* createFallbackResult.                                                   *)
(***************************************************************************)
AIProviders == {"deepseek", "minimax", "rule-based", "auto"}
Backends == {"deepseek", "minimax", "rule-based"}

\* aiModel of each backend's results
ModelOf(backend) ==
    CASE backend = "deepseek" -> "deepseek-chat"
      [] backend = "minimax" -> "minimax-abab6.5s"
      [] OTHER -> "RuleBased-v1.0"

RealModels == {ModelOf(b) : b \in Backends}

selectProviderMinimaxFirst ==
    IF config.primaryProvider # "auto" THEN config.primaryProvider
    ELSE IF minimax THEN "minimax"
    ELSE IF deepseek THEN "deepseek"
    ELSE "rule-based"

\* selectProvider(): deepseek and minimax tell whether the service objects
\* exist, that is whether an API key was configured
selectProvider ==
    IF config.primaryProvider # "auto" THEN config.primaryProvider
    ELSE IF deepseek THEN "deepseek"
    ELSE IF minimax THEN "minimax"
    ELSE "rule-based"

\* the backend the switch of analyzeWithProvider reaches for a provider name
BackendOf(provider) ==
    IF provider \in {"deepseek", "minimax"} THEN provider ELSE "rule-based"

\* what an invocation can do: a backend without credentials throws at once;
\* any other invocation returns a result or throws
Outcomes(provider) ==
    IF (provider = "deepseek" /\ ~deepseek) \/ (provider = "minimax" /\ ~minimax)
    THEN {"fail"}
    ELSE {"ok", "fail"}

\* the content of a backend's (normalized) answer
BackendAnswers ==
    { [recommendation |-> "buy", confidence |-> 80, overallRisk |-> "low", warnings |-> <<>>],
      [recommendation |-> "watch", confidence |-> 50, overallRisk |-> "high",
       warnings |-> <<"volatile">>] }

BackendResult(signal, backend, answer) ==
    [ signalId |-> signal.id,
      recommendation |-> answer.recommendation,
      confidence |-> answer.confidence,
      overallRisk |-> answer.overallRisk,
      warnings |-> answer.warnings,
      aiModel |-> ModelOf(backend) ]

createFallbackResultAsRuleBased(signal) ==
    [ signalId |-> signal.id,
      recommendation |-> "watch",
      confidence |-> 50,
      overallRisk |-> "high",
      warnings |-> <<"analysis failed">>,
      aiModel |-> "RuleBased-v1.0" ]

createFallbackResult(signal) ==
    [ signalId |-> signal.id,
      recommendation |-> "watch",
      confidence |-> 50,
      overallRisk |-> "high",
      warnings |-> <<"analysis failed">>,
      aiModel |-> "fallback" ]

ShouldFallbackAlways(provider) == config.enableFallback

\* this.config.enableFallback && this.config.fallbackProvider !== provider
ShouldFallback(provider) ==
    config.enableFallback /\ config.fallbackProvider # provider

\* the catch block of AIAnalyzer.analyzeBatch: the failed signal is left out
BatchCatchSkip(res, signal) == [raised |-> FALSE, results |-> res]

\* the catch block of AIRouter.analyzeBatch
BatchCatch(res, signal) ==
    [raised |-> FALSE, results |-> Append(res, createFallbackResult(signal))]

StatsInc(s, provider, field) == [s EXCEPT ![provider][field] = @ + 1]

StatsTotal(s) ==
    s["deepseek"].success + s["deepseek"].fail + s["minimax"].success
    + s["minimax"].fail + s["rule-based"].success + s["rule-based"].fail

NoResult == [signalId |-> <<"none", "none">>]
NoAnalyze == [status |-> "none"]

\* the invocations of each backend that returned and that threw, as they
\* happened (analyzeWithProvider reaching the backend, selected or fallback)
NoInvocations == [b \in Backends |-> [success |-> 0, fail |-> 0]]

Invoked(inv, backend, outcome) ==
    [inv EXCEPT ![backend][IF outcome = "ok" THEN "success" ELSE "fail"] = @ + 1]

ZeroStats ==
    [b \in Backends \cup {"ruleBased"} |-> [success |-> 0, fail |-> 0]]

DefaultConfig ==
    [primaryProvider |-> "auto", fallbackProvider |-> "rule-based", enableFallback |-> TRUE]

RouterIdle ==
    /\ config = DefaultConfig /\ deepseek = FALSE /\ minimax = FALSE
    /\ batch = <<>> /\ idx = 0 /\ results = <<>> /\ calls = <<>> /\ analyzed = <<>>
    /\ lastAnalyze = NoAnalyze /\ stats = ZeroStats /\ invocations = NoInvocations
    /\ rPc = "idle"

RouterSignals == {[id |-> <<"dexscreener", "X">>], [id |-> <<"merged", <<"solana", "Y">>>>]}

\* new AIRouter(config)
RouterInit ==
    /\ config \in [primaryProvider : AIProviders, fallbackProvider : AIProviders,
                   enableFallback : BOOLEAN]
    /\ deepseek \in BOOLEAN /\ minimax \in BOOLEAN
    /\ batch = <<>> /\ idx = 0 /\ results = <<>> /\ calls = <<>> /\ analyzed = <<>>
    /\ lastAnalyze = NoAnalyze /\ stats = ZeroStats /\ invocations = NoInvocations
    /\ rPc = "idle"

\* where the loop of analyzeBatch goes after item idx
AfterItem == IF idx = Len(batch) THEN "done" ELSE "analyze"

\* analyzeBatch(signals) is called
AnalyzeBatch ==
    /\ RouterFrame
    /\ rPc = "idle"
    /\ \E signals \in SeqsUpTo(RouterSignals, MaxBatch) :
         /\ StatsTotal(stats) + Len(signals) <= MaxAnalyzeCalls
         /\ batch' = signals
         /\ idx' = IF signals = <<>> THEN 0 ELSE 1
         /\ rPc' = IF signals = <<>> THEN "done" ELSE "analyze"
    /\ results' = <<>> /\ calls' = <<>> /\ analyzed' = <<>>
    /\ lastAnalyze' = NoAnalyze
    /\ UNCHANGED <<config, deepseek, minimax, stats, invocations>>

\* analyze(signal) throws to analyzeBatch, whose catch handles it
AnalyzeThrows(trace, errorFrom) ==
    LET c == BatchCatch(results, batch[idx]) IN
    /\ lastAnalyze' = [status |-> "threw", selected |-> trace[1].provider,
                       calls |-> trace, result |-> NoResult, errorFrom |-> errorFrom]
    /\ results' = c.results
    /\ analyzed' = Append(analyzed, "threw")
    /\ calls' = <<>>
    /\ idx' = IF c.raised \/ idx = Len(batch) THEN idx ELSE idx + 1
    /\ rPc' = IF c.raised THEN "raised" ELSE AfterItem

\* analyze(signal) returns result to analyzeBatch, which pushes it and delays
AnalyzeReturns(trace, result) ==
    /\ lastAnalyze' = [status |-> "returned", selected |-> trace[1].provider,
                       calls |-> trace, result |-> result, errorFrom |-> 0]
    /\ results' = Append(results, result)
    /\ analyzed' = Append(analyzed, "returned")
    /\ calls' = <<>>
    /\ idx' = idx
    /\ rPc' = "delay"

\* analyze(signal): the selected backend is invoked and returns or throws
InvokeSelected ==
    /\ RouterFrame
    /\ rPc = "analyze"
    /\ LET provider == selectProvider IN
       \E outcome \in Outcomes(provider) :
         LET trace == <<[provider |-> BackendOf(provider), outcome |-> outcome]>> IN
         /\ invocations' = Invoked(invocations, BackendOf(provider), outcome)
         /\ IF outcome = "ok"
            THEN /\ stats' = StatsInc(stats, provider, "success")
                 /\ \E answer \in BackendAnswers :
                      AnalyzeReturns(trace, BackendResult(batch[idx], BackendOf(provider), answer))
            ELSE /\ stats' = StatsInc(stats, provider, "fail")
                 /\ IF ShouldFallback(provider)
                    THEN /\ calls' = trace
                         /\ rPc' = "fallback"
                         /\ UNCHANGED <<results, analyzed, lastAnalyze, idx>>
                    ELSE AnalyzeThrows(trace, 1)
    /\ UNCHANGED <<config, deepseek, minimax, batch>>

\* return this.analyzeWithProvider(signal, this.config.fallbackProvider)
InvokeFallback ==
    /\ RouterFrame
    /\ rPc = "fallback"
    /\ LET provider == config.fallbackProvider IN
       \E outcome \in Outcomes(provider) :
         LET trace == Append(calls, [provider |-> BackendOf(provider), outcome |-> outcome]) IN
         /\ invocations' = Invoked(invocations, BackendOf(provider), outcome)
         /\ IF outcome = "ok"
            THEN \E answer \in BackendAnswers :
                   AnalyzeReturns(trace, BackendResult(batch[idx], BackendOf(provider), answer))
            ELSE AnalyzeThrows(trace, 2)
    /\ UNCHANGED <<config, deepseek, minimax, batch, stats>>

\* await this.delay(300) ends; the loop goes on
DelayEnds ==
    /\ RouterFrame
    /\ rPc = "delay"
    /\ idx' = IF idx = Len(batch) THEN idx ELSE idx + 1
    /\ rPc' = AfterItem
    /\ UNCHANGED <<config, deepseek, minimax, batch, results, calls, analyzed,
                   lastAnalyze, stats, invocations>>

\* analyzeBatch has returned results; the router is free for the next batch
BatchReturned ==
    /\ RouterFrame
    /\ rPc = "done"
    /\ batch' = <<>> /\ idx' = 0 /\ results' = <<>> /\ analyzed' = <<>>
    /\ lastAnalyze' = NoAnalyze
    /\ rPc' = "idle"
    /\ UNCHANGED <<config, deepseek, minimax, calls, stats, invocations>>

RouterNext ==
    AnalyzeBatch \/ InvokeSelected \/ InvokeFallback \/ DelayEnds \/ BatchReturned

(***************************************************************************)
(* AIAnalyzer, the rule-based engine: analyze(signal).  Of the signal it   *)
(* reads score, metrics.platformCount, ageHours and the token's liquidity, *)
(* market cap, holder count, 24h price change and 24h volume.              *)
(***************************************************************************)
Recommendations == {"strong_buy", "buy", "watch", "avoid"}

\* analyzeMarketMetrics(signal).multiPlatformConfirmed
multiPlatformConfirmed(signal) == signal.platformCount >= 2

\* analyzeRisk: rugRisk
rugRisk(signal) ==
    (IF signal.ageHours < 1 THEN 40
     ELSE IF signal.ageHours < 6 THEN 25
     ELSE IF signal.ageHours < 24 THEN 15 ELSE 0)
    + (IF signal.liquidityUsd < 10000 THEN 30
       ELSE IF signal.liquidityUsd < 50000 THEN 15 ELSE 0)
    + (IF signal.marketCap < 100000 THEN 20 ELSE 0)
    + (IF signal.holderCount < 100 THEN 20
       ELSE IF signal.holderCount < 500 THEN 10 ELSE 0)

\* analyzeRisk: volatilityRisk
volatilityRisk(signal) ==
    30 + (IF Abs(signal.priceChange24h) > 100 THEN 30
          ELSE IF Abs(signal.priceChange24h) > 50 THEN 15 ELSE 0)

\* analyzeRisk: liquidityRisk (liquidityUsd < volume24h * 0.5)
liquidityRisk(signal) ==
    20 + (IF 2 * signal.liquidityUsd < signal.volume24h THEN 30 ELSE 0)

\* analyzeRisk: overallRiskScore = (rugRisk + volatilityRisk + liquidityRisk) / 3
\* compared with 60, 40 and 25
overallRisk(signal) ==
    LET sum == rugRisk(signal) + volatilityRisk(signal) + liquidityRisk(signal) IN
    IF sum >= 3 * 60 THEN "extreme"
    ELSE IF sum >= 3 * 40 THEN "high"
    ELSE IF sum >= 3 * 25 THEN "medium"
    ELSE "low"

reportedRugRiskCappedAt80(signal) == Min(rugRisk(signal), 80)

\* analyzeRisk: the rugRisk it returns, Math.min(rugRisk, 100)
reportedRugRisk(signal) == Min(rugRisk(signal), 100)

\* analyzeRisk: the volatilityRisk and liquidityRisk it returns
reportedVolatilityRisk(signal) == Min(volatilityRisk(signal), 100)
reportedLiquidityRisk(signal) == Min(liquidityRisk(signal), 100)

\* the decision table of calculateEntryStrategy, without the new-token rule
calculateEntryStrategyWithoutNewTokenRule(signal) ==
    IF overallRisk(signal) = "low" /\ RatLe(RatInt(80), signal.score)
    THEN [positionSize |-> "large", maxPositionUsd |-> 1000]
    ELSE IF overallRisk(signal) = "medium" /\ RatLe(RatInt(70), signal.score)
    THEN [positionSize |-> "medium", maxPositionUsd |-> 500]
    ELSE [positionSize |-> "small", maxPositionUsd |-> 200]

\* calculateEntryStrategy(signal, riskAnalysis): positionSize, maxPositionUsd
calculateEntryStrategy(signal) ==
    LET table == IF overallRisk(signal) = "low" /\ RatLe(RatInt(80), signal.score)
                 THEN [positionSize |-> "large", maxPositionUsd |-> 1000]
                 ELSE IF overallRisk(signal) = "medium" /\ RatLe(RatInt(70), signal.score)
                 THEN [positionSize |-> "medium", maxPositionUsd |-> 500]
                 ELSE [positionSize |-> "small", maxPositionUsd |-> 200]
    IN IF signal.isNewToken
       THEN [positionSize |-> "small", maxPositionUsd |-> Min(table.maxPositionUsd, 300)]
       ELSE table

determineRecommendationIgnoringHighRisk(signal) ==
    IF overallRisk(signal) = "extreme" THEN "avoid"
    ELSE IF RatLe(RatInt(85), signal.score) /\ overallRisk(signal) = "low" THEN "strong_buy"
    ELSE IF RatLe(RatInt(75), signal.score) THEN "buy"
    ELSE IF RatLe(RatInt(60), signal.score) THEN "watch"
    ELSE "avoid"

determineRecommendationBuyFrom70(signal) ==
    IF overallRisk(signal) = "extreme" THEN "avoid"
    ELSE IF RatLe(RatInt(85), signal.score) /\ overallRisk(signal) = "low" THEN "strong_buy"
    ELSE IF RatLe(RatInt(70), signal.score) /\ overallRisk(signal) # "high" THEN "buy"
    ELSE IF RatLe(RatInt(60), signal.score) THEN "watch"
    ELSE "avoid"

\* determineRecommendation(signal, riskAnalysis)
determineRecommendation(signal) ==
    IF overallRisk(signal) = "extreme" THEN "avoid"
    ELSE IF RatLe(RatInt(85), signal.score) /\ overallRisk(signal) = "low" THEN "strong_buy"
    ELSE IF RatLe(RatInt(75), signal.score) /\ overallRisk(signal) # "high" THEN "buy"
    ELSE IF RatLe(RatInt(60), signal.score) THEN "watch"
    ELSE "avoid"

\* the adjustments calculateConfidence adds to signal.score
ConfidenceAdjustment(signal) ==
    (IF multiPlatformConfirmed(signal) THEN 5 ELSE 0)
    + (IF overallRisk(signal) = "low" THEN 5 ELSE 0)
    - (IF overallRisk(signal) = "high" THEN 15
       ELSE IF overallRisk(signal) = "extreme" THEN 30 ELSE 0)

calculateConfidenceUnclamped(signal) ==
    RatAdd(signal.score, RatInt(ConfidenceAdjustment(signal)))

\* calculateConfidence: Math.max(0, Math.min(100, confidence))
calculateConfidence(signal) ==
    RatMax(RatInt(0),
           RatMin(RatInt(100), RatAdd(signal.score, RatInt(ConfidenceAdjustment(signal)))))

\* the token data analyzeRisk reads; the sums of the three risks are 50, 75,
\* 80, 120, 140 and 220, then 65 and 75 (a new token of low risk, an old one
\* of medium risk) and 160, 175, 190, 190 and 205 (with 220, every pair of
\* volatilityRisk and liquidityRisk under rugRisk 110, the only value over 100)
RiskProfiles ==
    { [ageHours |-> 12, liquidityUsd |-> 100000, marketCap |-> 500000,
       holderCount |-> 1000, priceChange24h |-> 10, volume24h |-> 50000],
      [ageHours |-> 48, liquidityUsd |-> 20000, marketCap |-> 500000,
       holderCount |-> 200, priceChange24h |-> 10, volume24h |-> 10000],
      [ageHours |-> 0, liquidityUsd |-> 5000, marketCap |-> 50000,
       holderCount |-> 50, priceChange24h |-> 10, volume24h |-> 10000],
      [ageHours |-> 0, liquidityUsd |-> 5000, marketCap |-> 50000,
       holderCount |-> 50, priceChange24h |-> 60, volume24h |-> 10000],
      [ageHours |-> 0, liquidityUsd |-> 5000, marketCap |-> 50000,
       holderCount |-> 50, priceChange24h |-> -150, volume24h |-> 10000],
      [ageHours |-> 0, liquidityUsd |-> 5000, marketCap |-> 50000,
       holderCount |-> 50, priceChange24h |-> 10, volume24h |-> 20000],
      [ageHours |-> 0, liquidityUsd |-> 5000, marketCap |-> 50000,
       holderCount |-> 50, priceChange24h |-> 60, volume24h |-> 20000],
       [ageHours |-> 48, liquidityUsd |-> 100000, marketCap |-> 500000,
       holderCount |-> 1000, priceChange24h |-> 10, volume24h |-> 50000],
      [ageHours |-> 3, liquidityUsd |-> 100000, marketCap |-> 500000,
       holderCount |-> 1000, priceChange24h |-> 10, volume24h |-> 50000],
      [ageHours |-> 12, liquidityUsd |-> 20000, marketCap |-> 500000,
       holderCount |-> 1000, priceChange24h |-> -10, volume24h |-> 10000],
      [ageHours |-> 0, liquidityUsd |-> 5000, marketCap |-> 500000,
       holderCount |-> 1000, priceChange24h |-> 10, volume24h |-> 10000],
      [ageHours |-> 0, liquidityUsd |-> 5000, marketCap |-> 50000,
       holderCount |-> 1000, priceChange24h |-> 10, volume24h |-> 10000],
      [ageHours |-> 0, liquidityUsd |-> 5000, marketCap |-> 50000,
       holderCount |-> 50, priceChange24h |-> -150, volume24h |-> 20000] }

\* the signals handed to analyze: every score from 0 to 100 in steps of 1/2
\* (an average of two integer scores), seen on one or two platforms;
\* isNewToken as the adapters set it (ageHours <= 24)
RuleSignals ==
    { [score |-> RatNorm(n, 2), platformCount |-> c,
       isNewToken |-> (p.ageHours <= 24),
       ageHours |-> p.ageHours, liquidityUsd |-> p.liquidityUsd,
       marketCap |-> p.marketCap, holderCount |-> p.holderCount,
       priceChange24h |-> p.priceChange24h, volume24h |-> p.volume24h] :
        n \in 0..200, c \in 1..2, p \in RiskProfiles }

NoRuleResult == [recommendation |-> "none"]

RuleIdle == ruleIn = [score |-> RatInt(0)] /\ ruleOut = NoRuleResult /\ rulePc = "idle"

RuleInit == ruleIn \in RuleSignals /\ ruleOut = NoRuleResult /\ rulePc = "input"

\* analyze(signal)
RuleAnalyze ==
    /\ RuleFrame
    /\ rulePc = "input"
    /\ ruleOut' = [recommendation |-> determineRecommendation(ruleIn),
                   confidence |-> calculateConfidence(ruleIn),
                   overallRisk |-> overallRisk(ruleIn),
                   rugRisk |-> reportedRugRisk(ruleIn),
                   volatilityRisk |-> reportedVolatilityRisk(ruleIn),
                   liquidityRisk |-> reportedLiquidityRisk(ruleIn),
                   positionSize |-> calculateEntryStrategy(ruleIn).positionSize,
                   maxPositionUsd |-> calculateEntryStrategy(ruleIn).maxPositionUsd]
    /\ rulePc' = "analyzed"
    /\ UNCHANGED ruleIn

RuleNext == RuleAnalyze

(***************************************************************************)
(* MultiPlatformMonitor: start, stop, the cron trigger and runScan.        *)
(* A scan cycle in flight is at one of its awaits; scans counts the cycles *)
(* in flight at each of them.                                              *)
(***************************************************************************)
ScanPhases == {"newListings", "trending", "analyze", "notify"}

NoScans == [p \in ScanPhases |-> 0]

ScansInFlight == scans["newListings"] + scans["trending"] + scans["analyze"] + scans["notify"]

MonitorIdle ==
    /\ isRunning = FALSE /\ cronJob = FALSE /\ scans = NoScans /\ started = 0
    /\ liveTriggers = 0 /\ failedScans = 0 /\ unhandled = FALSE /\ op = "new"

\* this.runScan() is called: it runs up to its first await,
\* await this.aggregator.aggregateNewListings('solana')
RunScan == [scans EXCEPT !["newListings"] = @ + 1]

\* start() without the isRunning test
StartUnguarded ==
    /\ MonitorFrame
    /\ started < MaxStarted
    /\ scans' = RunScan
    /\ started' = started + 1
    /\ cronJob' = TRUE
    /\ liveTriggers' = liveTriggers + 1
    /\ isRunning' = TRUE
    /\ op' = "start"
    /\ UNCHANGED <<failedScans, unhandled>>

\* start(): liveTriggers counts the scheduled tasks that have not been
\* stopped, cronJob tells whether this.cronJob refers to one
Start ==
    /\ MonitorFrame
    /\ started < MaxStarted
    /\ IF isRunning
       THEN UNCHANGED <<isRunning, cronJob, scans, started, liveTriggers>>
       ELSE /\ scans' = RunScan
            /\ started' = started + 1
            /\ cronJob' = TRUE
            /\ liveTriggers' = liveTriggers + 1
            /\ isRunning' = TRUE
    /\ op' = IF isRunning THEN "startWhileRunning" ELSE "start"
    /\ UNCHANGED <<failedScans, unhandled>>

\* stop() that forgets this.cronJob.stop()
StopLeavesTrigger ==
    /\ MonitorFrame
    /\ cronJob' = FALSE
    /\ isRunning' = FALSE
    /\ op' = "stop"
    /\ UNCHANGED <<scans, started, liveTriggers, failedScans, unhandled>>

\* stop()
Stop ==
    /\ MonitorFrame
    /\ liveTriggers' = IF cronJob THEN liveTriggers - 1 ELSE liveTriggers
    /\ cronJob' = FALSE
    /\ isRunning' = FALSE
    /\ op' = "stop"
    /\ UNCHANGED <<scans, started, failedScans, unhandled>>

\* a scheduled task fires: () => { this.runScan(); }
CronTick ==
    /\ MonitorFrame
    /\ liveTriggers > 0
    /\ started < MaxStarted
    /\ scans' = RunScan
    /\ started' = started + 1
    /\ op' = "tick"
    /\ UNCHANGED <<isRunning, cronJob, liveTriggers, failedScans, unhandled>>

\* one cycle leaves the await `from` for the await `to`, or returns
Moved(from, to) ==
    IF to = "finished"
    THEN [scans EXCEPT ![from] = @ - 1]
    ELSE [scans EXCEPT ![from] = @ - 1, ![to] = @ + 1]

\* aggregateNewListings resolves; runScan awaits aggregateTrendingSignals
NewListingsDone ==
    /\ MonitorFrame
    /\ scans["newListings"] > 0
    /\ scans' = Moved("newListings", "trending")
    /\ op' = "scan"
    /\ UNCHANGED <<isRunning, cronJob, started, liveTriggers, failedScans, unhandled>>

\* aggregateTrendingSignals resolves with a non-empty batch; runScan awaits analyzeBatch
TrendingDone ==
    /\ MonitorFrame
    /\ scans["trending"] > 0
    /\ scans' = Moved("trending", "analyze")
    /\ op' = "scan"
    /\ UNCHANGED <<isRunning, cronJob, started, liveTriggers, failedScans, unhandled>>

\* aggregateTrendingSignals resolves and the batch is empty: runScan returns
EmptyBatch ==
    /\ MonitorFrame
    /\ scans["trending"] > 0
    /\ scans' = Moved("trending", "finished")
    /\ op' = "scan"
    /\ UNCHANGED <<isRunning, cronJob, started, liveTriggers, failedScans, unhandled>>

\* analyzeBatch resolves; runScan goes through the notifications
AnalyzeDone ==
    /\ MonitorFrame
    /\ scans["analyze"] > 0
    /\ scans' = Moved("analyze", "notify")
    /\ op' = "scan"
    /\ UNCHANGED <<isRunning, cronJob, started, liveTriggers, failedScans, unhandled>>

\* the notifications are sent and the statistics logged: runScan returns
NotifyDone ==
    /\ MonitorFrame
    /\ scans["notify"] > 0
    /\ scans' = Moved("notify", "finished")
    /\ op' = "scan"
    /\ UNCHANGED <<isRunning, cronJob, started, liveTriggers, failedScans, unhandled>>

CaughtWhileAggregatingOnly(p) == p \in {"newListings", "trending"}

\* the awaits of runScan that lie inside its try block: all of them
CaughtByRunScan(p) == p \in ScanPhases

\* an await rejects: the catch of runScan logs it and runScan returns; were
\* the await outside the try, the promise of runScan, which nobody awaits,
\* would reject unhandled
ScanFails ==
    /\ MonitorFrame
    /\ \E p \in ScanPhases :
         /\ scans[p] > 0
         /\ scans' = Moved(p, "finished")
         /\ unhandled' = (unhandled \/ ~CaughtByRunScan(p))
    /\ failedScans' = failedScans + 1
    /\ op' = "scanFails"
    /\ UNCHANGED <<isRunning, cronJob, started, liveTriggers>>

(***************************************************************************)
(* Step 7 of runScan: the notification loop over the batch and the         *)
(* analyses analyzeBatch returned for it (one per signal, in order).       *)
(* handed lists the indices given to sendNotification.                     *)
(***************************************************************************)
shouldNotifyWhateverTheRisk(analysis, minConfidence) ==
    IF analysis.recommendation \notin {"buy", "strong_buy"} THEN FALSE
    ELSE IF RatLt(analysis.confidence, RatInt(minConfidence)) THEN FALSE
    ELSE TRUE

\* shouldNotify(signal, analysis)
shouldNotify(analysis, minConfidence) ==
    IF analysis.recommendation \notin {"buy", "strong_buy"} THEN FALSE
    ELSE IF RatLt(analysis.confidence, RatInt(minConfidence)) THEN FALSE
    ELSE IF analysis.overallRisk = "extreme" /\ analysis.recommendation # "strong_buy" THEN FALSE
    ELSE TRUE

\* config.minAiConfidence: the default and a value every analysis meets
MinAiConfidenceValues == {0, 65}

\* the analyses of a batch: any backend's recommendation, a confidence
\* around the default minimum, any overall risk
AnalysisPool ==
    { [recommendation |-> r, confidence |-> c, overallRisk |-> k] :
        r \in Recommendations,
        c \in {RatInt(64), RatNorm(129, 2), RatInt(65)},
        k \in RiskLevels }

SendRaisesOnFailure(outcome) == outcome = "failed"

\* whether sendNotification raises to the loop of runScan: never, a failed
\* send is caught and logged (in sendAiRecommendation and in sendNotification)
SendRaises(outcome) == FALSE

\* what channel.send does
SendOutcomes == {"sent", "failed"}

NotifyIdle ==
    /\ minAiConfidence = 65 /\ analyses = <<>> /\ nIdx = 0 /\ handed = <<>>
    /\ failedSends = <<>> /\ nPc = "idle"

\* const analyses = await this.aiRouter.analyzeBatch(batch), batch not empty
NotifyInit ==
    /\ minAiConfidence \in MinAiConfidenceValues
    /\ analyses \in (SeqsUpTo(AnalysisPool, MaxBatch) \ {<<>>})
    /\ nIdx = 1 /\ handed = <<>> /\ failedSends = <<>> /\ nPc = "loop"

\* shouldNotify holds: await this.sendNotification(signal, analysis)
NotifySend ==
    /\ NotifyFrame
    /\ nPc = "loop" /\ nIdx <= Len(analyses)
    /\ shouldNotify(analyses[nIdx], minAiConfidence)
    /\ handed' = Append(handed, nIdx)
    /\ \E outcome \in SendOutcomes :
         /\ failedSends' = IF outcome = "failed" THEN Append(failedSends, nIdx)
                           ELSE failedSends
         /\ nPc' = IF SendRaises(outcome) THEN "raised" ELSE "delay"
    /\ UNCHANGED <<minAiConfidence, analyses, nIdx>>

\* shouldNotify does not hold: the next pair
NotifySkip ==
    /\ NotifyFrame
    /\ nPc = "loop" /\ nIdx <= Len(analyses)
    /\ ~shouldNotify(analyses[nIdx], minAiConfidence)
    /\ nIdx' = nIdx + 1
    /\ UNCHANGED <<minAiConfidence, analyses, handed, failedSends, nPc>>

\* await this.delay(500) ends: the next pair
NotifyDelayEnds ==
    /\ NotifyFrame
    /\ nPc = "delay"
    /\ nIdx' = nIdx + 1
    /\ nPc' = "loop"
    /\ UNCHANGED <<minAiConfidence, analyses, handed, failedSends>>

\* i reached batch.length
NotifyLoopEnds ==
    /\ NotifyFrame
    /\ nPc = "loop" /\ nIdx > Len(analyses)
    /\ nPc' = "done"
    /\ UNCHANGED <<minAiConfidence, analyses, nIdx, handed, failedSends>>

NotifyNext == NotifySend \/ NotifySkip \/ NotifyDelayEnds \/ NotifyLoopEnds

(***************************************************************************)
(* SignalAggregator.aggregateNewListings and aggregateTrendingSignals:     *)
(* each enabled adapter is queried inside its own try block, then the      *)
(* collected signals are merged, filtered and sorted by score.  answers    *)
(* records what each adapter did in the current call.                      *)
(***************************************************************************)
AggPlatforms == {"dexscreener", "birdeye"}

AggKinds == {"newListings", "trending"}

NoAnswers == [p \in AggPlatforms |-> [status |-> "notQueried", signals |-> <<>>]]

SortByScoreLeftAsFiltered(s) == s

\* filtered.sort((a, b) => b.score - a.score): stable, by decreasing score
RECURSIVE SortByScore(_)
SortByScore(s) ==
    IF s = <<>> THEN <<>>
    ELSE LET rest == SortByScore(SubSeq(s, 1, Len(s) - 1))
             x == s[Len(s)]
             k == Cardinality({i \in 1..Len(rest) : ~RatLt(rest[i].score, x.score)})
         IN SubSeq(rest, 1, k) \o <<x>> \o SubSeq(rest, k + 1, Len(rest))

AdapterCatchRethrows(all) == [raised |-> TRUE, all |-> all]

\* catch (error) { logger.error(...) }: the signals collected so far stay
AdapterCatch(all) == [raised |-> FALSE, all |-> all]

\* what the adapters may return (each list as the adapter sorts it)
DexAnswers ==
    { <<>>,
      <<MkSignal("dexscreener", "solana", "X", 70, "medium", "low", <<>>, 0, 0, 60000, 200000)>>,
      <<MkSignal("dexscreener", "solana", "Y", 90, "critical", "medium", <<"liq">>, 0, 0, 60000, 200000),
        MkSignal("dexscreener", "solana", "X", 70, "medium", "low", <<>>, 0, 0, 60000, 200000)>> }

BirdeyeAnswers ==
    { <<>>,
      <<MkSignal("birdeye", "solana", "X", 74, "medium", "high", <<"age">>, 0, 0, 60000, 200000)>>,
      <<MkSignal("birdeye", "solana", "Z", 85, "high", "low", <<>>, 0, 0, 60000, 200000),
        MkSignal("birdeye", "solana", "Y", 50, "low", "low", <<>>, 0, 0, 60000, 200000)>> }

AnswersOf(platform) == IF platform = "dexscreener" THEN DexAnswers ELSE BirdeyeAnswers

AggIdle ==
    /\ platformsEnabled = [p \in AggPlatforms |-> p = "dexscreener"]
    /\ aggKind = "none" /\ answers = NoAnswers /\ allSignals = <<>> /\ aggOut = <<>>
    /\ aggCalls = 0 /\ aggPc = "idle"

\* new SignalAggregator(config): any choice of enabled adapters
AggInit ==
    /\ platformsEnabled \in [AggPlatforms -> BOOLEAN]
    /\ aggKind = "none" /\ answers = NoAnswers /\ allSignals = <<>> /\ aggOut = <<>>
    /\ aggCalls = 0 /\ aggPc = "idle"

\* aggregateNewListings(chain) or aggregateTrendingSignals(chain) is called
AggregateCall ==
    /\ AggFrame
    /\ aggPc \in {"idle", "returned"}
    /\ aggCalls < MaxAggregations
    /\ aggKind' \in AggKinds
    /\ answers' = NoAnswers /\ allSignals' = <<>> /\ aggOut' = <<>>
    /\ aggCalls' = aggCalls + 1
    /\ aggPc' = "dexscreener"
    /\ UNCHANGED <<platformsEnabled, filterVars>>

\* the adapter after this one, or the merge
AfterAdapter(platform) == IF platform = "dexscreener" THEN "birdeye" ELSE "finish"

\* if (this.config.platforms.<adapter>.enabled) is false
AdapterSkipped ==
    /\ AggFrame
    /\ aggPc \in AggPlatforms
    /\ ~platformsEnabled[aggPc]
    /\ aggPc' = AfterAdapter(aggPc)
    /\ UNCHANGED <<platformsEnabled, aggKind, answers, allSignals, aggOut, aggCalls, filterVars>>

\* the enabled adapter resolves: allSignals.push(...signals)
AdapterReturns ==
    /\ AggFrame
    /\ aggPc \in AggPlatforms
    /\ platformsEnabled[aggPc]
    /\ \E signals \in AnswersOf(aggPc) :
         /\ answers' = [answers EXCEPT ![aggPc] = [status |-> "returned", signals |-> signals]]
         /\ allSignals' = allSignals \o signals
    /\ aggPc' = AfterAdapter(aggPc)
    /\ UNCHANGED <<platformsEnabled, aggKind, aggOut, aggCalls, filterVars>>

\* the enabled adapter rejects: the catch of its try block
AdapterThrows ==
    /\ AggFrame
    /\ aggPc \in AggPlatforms
    /\ platformsEnabled[aggPc]
    /\ answers' = [answers EXCEPT ![aggPc] = [status |-> "threw", signals |-> <<>>]]
    /\ LET r == AdapterCatch(allSignals) IN
         /\ allSignals' = r.all
         /\ aggPc' = IF r.raised THEN "raised" ELSE AfterAdapter(aggPc)
    /\ UNCHANGED <<platformsEnabled, aggKind, aggOut, aggCalls, filterVars>>

\* mergeSignals, filterSignals, sort, return
AggregateReturns ==
    /\ AggFrame
    /\ aggPc = "finish"
    /\ LET m == mergeSignals(allSignals)
           r == filterSignals(m, processedTokens, now)
       IN /\ passIn' = m
          /\ passOut' = r.out
          /\ processedTokens' = r.processed
          /\ prevEmit' = lastEmit
          /\ lastEmit' = MarkAll(lastEmit, r.out, now)
          /\ aggOut' = SortByScore(r.out)
    /\ aggPc' = "returned"
    /\ UNCHANGED <<platformsEnabled, aggKind, answers, allSignals, aggCalls, now, ticks, fPc>>

AggNext ==
    \/ AggregateCall \/ AdapterSkipped \/ AdapterReturns \/ AdapterThrows
    \/ AggregateReturns

(***************************************************************************)
(* Steps 3 to 5 of runScan: the two lists the aggregator returned are      *)
(* concatenated, deduplicated by token and cut to maxSignalsPerBatch.      *)
(***************************************************************************)
\* deduplicateByToken(signals): the first signal of every key is kept
RECURSIVE deduplicateByToken(_)
deduplicateByToken(signals) ==
    IF signals = <<>> THEN <<>>
    ELSE LET front == deduplicateByToken(SubSeq(signals, 1, Len(signals) - 1))
             s == signals[Len(signals)]
         IN IF \E i \in 1..Len(front) : TokenKey(front[i]) = TokenKey(s)
            THEN front ELSE Append(front, s)

\* uniqueSignals.slice(0, n)
Slice(signals, n) == SubSeq(signals, 1, Min(n, Len(signals)))

\* signals the aggregator may return in a cycle: they passed the filter
CyclePool ==
    { MkSignal("dexscreener", "solana", "W", 60, "medium", "low", <<>>, 0, 0, 60000, 200000),
      MkSignal("dexscreener", "solana", "X", 70, "medium", "low", <<>>, 0, 0, 60000, 200000),
      MkSignal("dexscreener", "solana", "Y", 90, "critical", "low", <<>>, 0, 0, 60000, 200000),
      MkSignal("dexscreener", "solana", "Z", 80, "high", "low", <<>>, 0, 0, 60000, 200000) }

\* what an aggregator call returns: sorted by decreasing score, one signal
\* for each key
AggregatorLists ==
    { s \in SeqsUpTo(CyclePool, MaxCycleList) :
        /\ s = SortByScore(s)
        /\ \A i, j \in 1..Len(s) : i # j => TokenKey(s[i]) # TokenKey(s[j]) }

\* config.maxSignalsPerBatch: small values and the default
BatchCaps == {1, 2, 10}

CycleIdle ==
    /\ newListings = <<>> /\ trendingSignals = <<>> /\ maxSignalsPerBatch = 10
    /\ uniqueSignals = <<>> /\ cycleBatch = <<>> /\ cPc = "idle"

\* both aggregator calls of a cycle have returned; the second call returns
\* no key the first one returned (the suppression map holds them)
CycleInit ==
    /\ newListings \in AggregatorLists
    /\ trendingSignals \in
         { s \in AggregatorLists :
             \A i \in 1..Len(s), j \in 1..Len(newListings) :
               TokenKey(s[i]) # TokenKey(newListings[j]) }
    /\ maxSignalsPerBatch \in BatchCaps
    /\ uniqueSignals = <<>> /\ cycleBatch = <<>> /\ cPc = "aggregated"

\* const uniqueSignals = this.deduplicateByToken([...newListings, ...trendingSignals])
DeduplicateCycle ==
    /\ CycleFrame
    /\ cPc = "aggregated"
    /\ uniqueSignals' = deduplicateByToken(newListings \o trendingSignals)
    /\ cPc' = "unique"
    /\ UNCHANGED <<newListings, trendingSignals, maxSignalsPerBatch, cycleBatch>>

\* const batch = uniqueSignals.slice(0, this.config.maxSignalsPerBatch)
CutBatch ==
    /\ CycleFrame
    /\ cPc = "unique"
    /\ cycleBatch' = Slice(uniqueSignals, maxSignalsPerBatch)
    /\ cPc' = "batched"
    /\ UNCHANGED <<newListings, trendingSignals, maxSignalsPerBatch, uniqueSignals>>

CycleNext == DeduplicateCycle \/ CutBatch

(***************************************************************************)
(* BirdeyeService: checkRateLimit and the data calls that start with it.   *)
(* today and lastReset are days of the month (getDate()).                  *)
(***************************************************************************)
dailyLimit == 100

BudgetFrame == UNCHANGED <<mergeVars, filterVars, scoreVars, routerVars, monitorVars, ruleVars,
    notifyVars, aggVars, cycleVars, normVars, scanVars, statsVars>>

checkRateLimitCountsToLimitPlusOne(count, reset, day) ==
    LET c == IF day # reset THEN 0 ELSE count
        r == IF day # reset THEN day ELSE reset
    IN IF c > dailyLimit
       THEN [allowed |-> FALSE, requestCount |-> c, lastReset |-> r]
       ELSE [allowed |-> TRUE, requestCount |-> c + 1, lastReset |-> r]

\* checkRateLimit(): reset on a new day, refuse at the limit, else count
checkRateLimit(count, reset, day) ==
    LET c == IF day # reset THEN 0 ELSE count
        r == IF day # reset THEN day ELSE reset
    IN IF c >= dailyLimit
       THEN [allowed |-> FALSE, requestCount |-> c, lastReset |-> r]
       ELSE [allowed |-> TRUE, requestCount |-> c + 1, lastReset |-> r]

\* getRemainingRequests()
getRemainingRequests == dailyLimit - requestCount

\* the data calls of the service
BirdeyeCalls ==
    {"getTrendingTokens", "getNewListings", "getPriceMovers", "getTokenInfo",
     "getWalletTransactions", "searchTokens"}

\* what this.client.get does: data, no data, or an error
Transports == {"data", "nodata", "error"}

\* the value a call returns without data: null for getTokenInfo, [] otherwise
EmptyResult(call) == IF call = "getTokenInfo" THEN "null" ELSE "[]"

\* the value a data call returns: after a refusal and in the catch block the
\* empty value; getTokenInfo returns null also for a response without data
CallResult(call, allowed, transport) ==
    IF ~allowed THEN EmptyResult(call)
    ELSE IF transport = "error" THEN EmptyResult(call)
    ELSE IF transport = "nodata" THEN EmptyResult(call)
    ELSE "data"

NoCall == [call |-> "none"]

BudgetIdle ==
    /\ requestCount = 0 /\ lastReset = 1 /\ today = 1 /\ requestsToday = 0
    /\ lastCall = NoCall /\ bPc = "idle"

\* new BirdeyeService(apiKey)
BudgetInit ==
    /\ requestCount = 0 /\ lastReset = 1 /\ today = 1 /\ requestsToday = 0
    /\ lastCall = NoCall /\ bPc = "ready"

\* one data call: checkRateLimit, then the request inside try/catch
BirdeyeCall ==
    /\ BudgetFrame
    /\ bPc = "ready"
    /\ \E call \in BirdeyeCalls, transport \in Transports :
         LET r == checkRateLimit(requestCount, lastReset, today) IN
         /\ requestCount' = r.requestCount
         /\ lastReset' = r.lastReset
         /\ requestsToday' = IF r.allowed THEN requestsToday + 1 ELSE requestsToday
         /\ lastCall' = [call |-> call,
                         exhausted |-> (today = lastReset /\ requestCount >= dailyLimit),
                         issued |-> r.allowed,
                         result |-> CallResult(call, r.allowed, transport)]
    /\ UNCHANGED <<today, bPc>>

\* midnight passes
DayPasses ==
    /\ BudgetFrame
    /\ bPc = "ready"
    /\ today < MaxDays
    /\ today' = today + 1
    /\ requestsToday' = 0
    /\ UNCHANGED <<requestCount, lastReset, lastCall, bPc>>

BudgetNext == BirdeyeCall \/ DayPasses

(***************************************************************************)
(* MiniMaxService.normalizeResult and DeepSeekService.normalizeResult (the *)
(* same text but for aiModel).  A JSON value is a record tagged by t:      *)
(* missing (undefined), null, number, string or object.                    *)
(***************************************************************************)
NormFrame == UNCHANGED <<mergeVars, filterVars, scoreVars, routerVars, monitorVars, ruleVars,
    notifyVars, aggVars, cycleVars, budgetVars, scanVars, statsVars>>

Missing == [t |-> "missing"]
Null == [t |-> "null"]
Num(n) == [t |-> "number", n |-> n]
Str(s) == [t |-> "string", s |-> s]
NaN == [t |-> "NaN"]

\* obj?.field
Field(obj, field) ==
    IF obj.t = "object" /\ field \in DOMAIN obj THEN obj[field] ELSE Missing

IncludesKeepsAnyString(list, value, default) ==
    IF value.t = "string" THEN value.s ELSE default

\* list.includes(value) ? value : default
Includes(list, value, default) ==
    IF value.t = "string" /\ value.s \in list THEN value.s ELSE default

\* value || 50: undefined, null, 0, NaN and "" are falsy
OrDefault(value, default) ==
    IF value.t \in {"missing", "null", "NaN"} THEN Num(default)
    ELSE IF value.t = "number" /\ value.n = 0 THEN Num(default)
    ELSE IF value.t = "string" /\ value.s = "" THEN Num(default)
    ELSE value

\* Math.max(0, Math.min(100, value)): a string that is not a number gives NaN
\* (the strings of the pool are not numbers), as does an object
Clamp(value) ==
    IF value.t = "number"
    THEN Num(IF Min(100, value.n) < 0 THEN 0 ELSE Min(100, value.n))
    ELSE NaN

\* Math.max(0, Math.min(100, value || 50))
ClampOrDefault(value, default) == Clamp(OrDefault(value, default))

normalizeResult(p, model) ==
    IF p.t \in {"null", "missing"} THEN [threw |-> "TypeError"]
    ELSE
    [ threw |-> "no",
      recommendation |->
        Includes({"strong_buy", "buy", "watch", "avoid"}, Field(p, "recommendation"), "watch"),
      confidence |-> ClampOrDefault(Field(p, "confidence"), 50),
      positionSize |->
        Includes({"small", "medium", "large"},
                 Field(Field(p, "entryStrategy"), "positionSize"), "small"),
      timeHorizon |->
        Includes({"scalp", "short", "medium", "long"},
                 Field(Field(p, "entryStrategy"), "timeHorizon"), "short"),
      rugRisk |-> ClampOrDefault(Field(Field(p, "riskAnalysis"), "rugRisk"), 50),
      volatilityRisk |-> ClampOrDefault(Field(Field(p, "riskAnalysis"), "volatilityRisk"), 50),
      liquidityRisk |-> ClampOrDefault(Field(Field(p, "riskAnalysis"), "liquidityRisk"), 50),
      overallRisk |->
        Includes({"low", "medium", "high", "extreme"},
                 Field(Field(p, "riskAnalysis"), "overallRisk"), "medium"),
      aiModel |-> model ]

\* what a backend may answer in a field of named values, and in a number
NamedValues(list) == {Str(s) : s \in list} \cup {Str("other"), Missing, Null}
NumberValues == {Missing, Null, Str("n/a")} \cup {Num(n) : n \in {-5, 0, 1, 100, 150}}
RiskNumberValues == {Missing} \cup {Num(n) : n \in {0, 50, 101}}

EntryStrategies ==
    {Missing, Null} \cup
    { [t |-> "object", positionSize |-> ps, timeHorizon |-> th] :
        ps \in NamedValues({"small", "medium", "large"}) \ {Null},
        th \in NamedValues({"scalp", "short", "medium", "long"}) \ {Null} }

RiskAnalyses ==
    {Missing, Null} \cup
    { [t |-> "object", rugRisk |-> r[1], volatilityRisk |-> r[2], liquidityRisk |-> r[3],
       overallRisk |-> o] :
        r \in { <<a, a, a>> : a \in RiskNumberValues } \cup { <<Num(0), Num(50), Num(101)>> },
        o \in NamedValues({"low", "medium", "high", "extreme"}) \ {Null} }

\* JSON.parse(...): null, or an object with or without each field
ParsedResponses ==
    {Null} \cup
    { [t |-> "object", recommendation |-> rec, confidence |-> c,
       entryStrategy |-> e, riskAnalysis |-> r] :
        rec \in NamedValues({"strong_buy", "buy", "watch", "avoid"}) \ {Null},
        c \in NumberValues, e \in EntryStrategies, r \in RiskAnalyses }

NormIdle ==
    /\ parsed = Missing /\ service = "none" /\ normalized = [threw |-> "none"]
    /\ zPc = "idle"

\* const parsed = JSON.parse(jsonMatch[1] || content)
NormInit ==
    /\ parsed \in ParsedResponses /\ service \in {"minimax", "deepseek"}
    /\ normalized = [threw |-> "none"] /\ zPc = "parsed"

\* return this.normalizeResult(parsed, signal)
Normalize ==
    /\ NormFrame
    /\ zPc = "parsed"
    /\ normalized' = normalizeResult(parsed, ModelOf(service))
    /\ zPc' = "normalized"
    /\ UNCHANGED <<parsed, service>>

NormNext == Normalize

(***************************************************************************)
(* Scan cycles over one SignalAggregator: runScan (cron or start) and      *)
(* manualScan each call aggregateNewListings, then aggregateTrendingSignals*)
(* and then build the batch; the calls of different cycles interleave at   *)
(* the awaits, a filter pass itself is synchronous.  The clock is now, the *)
(* suppression map processedTokens.                                        *)
(***************************************************************************)
ScanFrame == UNCHANGED <<mergeVars, scoreVars, routerVars, monitorVars, ruleVars,
    notifyVars, aggVars, cycleVars, budgetVars, normVars, statsVars>>

ScanIds == 1..MaxScans
ScanKinds == {"runScan", "manualScan"}

MapReadPerCall(s, call) == IF call = "trending" THEN EmptyMap ELSE processedTokens

MapReadAtScanStart(s, call) ==
    IF call = "trending" THEN cyc[s].mapAtStart ELSE processedTokens

\* this.processedTokens as a filter pass of cycle s reads it: the one map of
\* the aggregator, as it is when the pass runs
MapReadByPass(s, call) == processedTokens

\* the signals of the merged lists handed to filterSignals
ScanPool ==
    { MkSignal("dexscreener", "solana", "X", 70, "medium", "low", <<>>, 0, 0, 60000, 200000),
      MkSignal("dexscreener", "solana", "Y", 90, "critical", "low", <<>>, 0, 0, 60000, 200000) }

\* a merged list: not empty, one signal for each key (the order of the keys
\* does not matter to the filter, the higher score is put first)
ScanInputs ==
    { s \in SeqsUpTo(ScanPool, 2) :
        /\ s # <<>>
        /\ s = SortByScore(s)
        /\ \A i, j \in 1..Len(s) : i # j => TokenKey(s[i]) # TokenKey(s[j]) }

KeysOf(signals) == {TokenKey(signals[i]) : i \in 1..Len(signals)}

ScanKeys == {TokenKey(x) : x \in ScanPool}

NoCycle ==
    [kind |-> "none", pc |-> "idle", newListings |-> <<>>, trendingSignals |-> <<>>,
     batch |-> <<>>, t1 |-> 0, t2 |-> 0, mapAtStart |-> EmptyMap]

NoPass == [call |-> "none"]

ScansIdle ==
    /\ scanConfig = [maxSignalsPerBatch |-> 10]
    /\ cyc = [s \in ScanIds |-> NoCycle]
    /\ passLog = [k \in ScanKeys |-> <<>>]
    /\ cappedOut = {} /\ lastPass = NoPass

ScansInit ==
    /\ scanConfig = [maxSignalsPerBatch |-> 1]
    /\ cyc = [s \in ScanIds |-> NoCycle]
    /\ passLog = [k \in ScanKeys |-> <<>>]
    /\ cappedOut = {} /\ lastPass = NoPass

\* merged -> filterSignals -> sort of an aggregator call of cycle s; the
\* pass is logged
AggregatorPass(s, call, input) ==
    LET r == filterSignals(input, MapReadByPass(s, call), now) IN
    /\ processedTokens' = r.processed
    /\ passLog' = [k \in DOMAIN passLog |->
                     IF k \in KeysOf(r.out) THEN Append(passLog[k], now) ELSE passLog[k]]
    /\ lastPass' = [call |-> call, scan |-> s, input |-> input,
                    out |-> SortByScore(r.out), capped |-> cappedOut]
    /\ cappedOut' = cappedOut \ KeysOf(r.out)

\* const newListings = await this.aggregator.aggregateNewListings('solana')
ListingsPass ==
    /\ ScanFrame
    /\ \E s \in ScanIds, kind \in ScanKinds, input \in ScanInputs :
         /\ cyc[s].pc = "idle"
         /\ s > 1 => cyc[s - 1].pc # "idle"
         /\ AggregatorPass(s, "listings", input)
         /\ cyc' = [cyc EXCEPT ![s] = [@ EXCEPT !.kind = kind, !.pc = "listed",
                                                 !.newListings = lastPass'.out,
                                                 !.t1 = now,
                                                 !.mapAtStart = processedTokens]]
    /\ UNCHANGED <<scanConfig, now, passIn, passOut, prevEmit, lastEmit, ticks, fPc>>

\* const trendingSignals = await this.aggregator.aggregateTrendingSignals('solana')
TrendingPass ==
    /\ ScanFrame
    /\ \E s \in ScanIds, input \in ScanInputs :
         /\ cyc[s].pc = "listed"
         /\ AggregatorPass(s, "trending", input)
         /\ cyc' = [cyc EXCEPT ![s] = [@ EXCEPT !.pc = "trended",
                                                 !.trendingSignals = lastPass'.out,
                                                 !.t2 = now]]
    /\ UNCHANGED <<scanConfig, now, passIn, passOut, prevEmit, lastEmit, ticks, fPc>>

\* runScan: deduplicateByToken and slice(0, maxSignalsPerBatch); manualScan:
\* deduplicateByToken only
BatchOf(kind, unique) ==
    IF kind = "runScan" THEN Slice(unique, scanConfig.maxSignalsPerBatch) ELSE unique

\* the batch of cycle s is built and handed to analyzeBatch
BatchCut ==
    /\ ScanFrame
    /\ \E s \in ScanIds :
         LET unique == deduplicateByToken(cyc[s].newListings \o cyc[s].trendingSignals)
             b == BatchOf(cyc[s].kind, unique)
         IN /\ cyc[s].pc = "trended"
            /\ cyc' = [cyc EXCEPT ![s] = [@ EXCEPT !.pc = "batched", !.batch = b]]
            /\ cappedOut' = cappedOut \cup (KeysOf(unique) \ KeysOf(b))
    /\ lastPass' = NoPass
    /\ UNCHANGED <<scanConfig, passLog, filterVars>>

ScansNext == ListingsPass \/ TrendingPass \/ BatchCut \/ Tick

(***************************************************************************)
(* MultiPlatformMonitor.stats: the counters runScan adds to.  Several      *)
(* cycles may be in flight; each one is at a given await or has returned.  *)
(***************************************************************************)
StatsFrame == UNCHANGED <<mergeVars, filterVars, scoreVars, routerVars, monitorVars, ruleVars,
    notifyVars, aggVars, cycleVars, budgetVars, normVars, scanVars>>

RunIds == 1..MaxRuns

AddOverwrites(st, counter, n) == [st EXCEPT ![counter] = n]

\* this.stats.<counter> += n
Add(st, counter, n) == [st EXCEPT ![counter] = @ + n]

\* analyses.length for a batch of n signals: analyzeBatch of the router
\* pushes one result for every signal, in the try or in the catch
AnalysesLength(n) == n

ZeroMonitorStats == [totalSignals |-> 0, totalAnalyzed |-> 0, totalSent |-> 0]

\* overlapped: another cycle was in flight when this one started
NoRun ==
    [pc |-> "idle", batch |-> 0, i |-> 0, sentCount |-> 0, analyzedAdded |-> 0,
     overlapped |-> FALSE]

InFlight(r) == runs[r].pc \in {"aggregating", "analyzing", "notifying"}

StatsIdle == monitorStats = ZeroMonitorStats /\ runs = [r \in {} |-> NoRun]

\* new MultiPlatformMonitor(config)
StatsInit == monitorStats = ZeroMonitorStats /\ runs = [r \in RunIds |-> NoRun]

\* runScan() is called and awaits the aggregator
CycleStarts ==
    /\ StatsFrame
    /\ \E r \in RunIds :
         /\ runs[r].pc = "idle"
         /\ r > 1 => runs[r - 1].pc # "idle"
         /\ runs' = [runs EXCEPT ![r].pc = "aggregating",
                                 ![r].overlapped = \E q \in RunIds : InFlight(q)]
    /\ UNCHANGED monitorStats

\* the batch is built: this.stats.totalSignals += batch.length, then return
\* if it is empty, else await analyzeBatch
BatchBuilt ==
    /\ StatsFrame
    /\ \E r \in RunIds, n \in 0..MaxBatch :
         /\ runs[r].pc = "aggregating"
         /\ monitorStats' = Add(monitorStats, "totalSignals", n)
         /\ runs' = [runs EXCEPT ![r].batch = n,
                                 ![r].pc = IF n = 0 THEN "returned" ELSE "analyzing"]

\* analyzeBatch resolves: this.stats.totalAnalyzed += analyses.length
AnalysesReturned ==
    /\ StatsFrame
    /\ \E r \in RunIds :
         /\ runs[r].pc = "analyzing"
         /\ monitorStats' = Add(monitorStats, "totalAnalyzed", AnalysesLength(runs[r].batch))
         /\ runs' = [runs EXCEPT ![r].pc = "notifying", ![r].i = 0, ![r].sentCount = 0,
                                 ![r].analyzedAdded = AnalysesLength(runs[r].batch)]

\* one turn of the notification loop: sentCount++ if shouldNotify holds
NotifyTurn ==
    /\ StatsFrame
    /\ \E r \in RunIds, notify \in BOOLEAN :
         /\ runs[r].pc = "notifying" /\ runs[r].i < runs[r].batch
         /\ runs' = [runs EXCEPT ![r].i = @ + 1,
                                 ![r].sentCount = IF notify THEN @ + 1 ELSE @]
    /\ UNCHANGED monitorStats

\* the loop is over: this.stats.totalSent += sentCount, runScan returns
CycleReturns ==
    /\ StatsFrame
    /\ \E r \in RunIds :
         /\ runs[r].pc = "notifying" /\ runs[r].i = runs[r].batch
         /\ monitorStats' = Add(monitorStats, "totalSent", runs[r].sentCount)
         /\ runs' = [runs EXCEPT ![r].pc = "returned"]

\* an await of the cycle rejects; the catch of runScan logs the error
CycleFails ==
    /\ StatsFrame
    /\ \E r \in RunIds :
         /\ runs[r].pc \in {"aggregating", "analyzing"}
         /\ runs' = [runs EXCEPT ![r].pc = "failed"]
    /\ UNCHANGED monitorStats

StatsNext ==
    CycleStarts \/ BatchBuilt \/ AnalysesReturned \/ NotifyTurn \/ CycleReturns \/ CycleFails

Init ==
    /\ MonitorIdle
    /\ MergeIdle /\ FilterIdle /\ ScoreIdle /\ RouterIdle
    /\ RuleIdle /\ NotifyIdle /\ AggIdle /\ CycleIdle
    /\ BudgetIdle
    /\ NormIdle
    /\ ScansIdle
    /\ StatsIdle

Next ==
    \/ Start \/ Stop \/ CronTick
    \/ NewListingsDone \/ TrendingDone \/ EmptyBatch \/ AnalyzeDone \/ NotifyDone
    \/ ScanFails

Spec == Init /\ [][Next]_vars

(***************************************************************************)
(* The specifications of the other components.                             *)
(***************************************************************************)
InitMerge ==
    /\ MergeInit /\ FilterIdle /\ ScoreIdle /\ RouterIdle /\ MonitorIdle
    /\ RuleIdle /\ NotifyIdle /\ AggIdle /\ CycleIdle
    /\ BudgetIdle
    /\ NormIdle
    /\ ScansIdle
    /\ StatsIdle

SpecMerge == InitMerge /\ [][MergeNext]_vars

InitFilter ==
    /\ FilterInit /\ MergeIdle /\ ScoreIdle /\ RouterIdle /\ MonitorIdle
    /\ RuleIdle /\ NotifyIdle /\ AggIdle /\ CycleIdle
    /\ BudgetIdle
    /\ NormIdle
    /\ ScansIdle
    /\ StatsIdle

SpecFilter == InitFilter /\ [][FilterNext]_vars

InitScore ==
    /\ ScoreInit /\ MergeIdle /\ FilterIdle /\ RouterIdle /\ MonitorIdle
    /\ RuleIdle /\ NotifyIdle /\ AggIdle /\ CycleIdle
    /\ BudgetIdle
    /\ NormIdle
    /\ ScansIdle
    /\ StatsIdle

SpecScore == InitScore /\ [][ScoreNext]_vars

InitRouter ==
    /\ RouterInit /\ MergeIdle /\ FilterIdle /\ ScoreIdle /\ MonitorIdle
    /\ RuleIdle /\ NotifyIdle /\ AggIdle /\ CycleIdle
    /\ BudgetIdle
    /\ NormIdle
    /\ ScansIdle
    /\ StatsIdle

SpecRouter == InitRouter /\ [][RouterNext]_vars

InitRule ==
    /\ RuleInit /\ MergeIdle /\ FilterIdle /\ ScoreIdle /\ RouterIdle /\ MonitorIdle
    /\ NotifyIdle /\ AggIdle /\ CycleIdle
    /\ BudgetIdle
    /\ NormIdle
    /\ ScansIdle
    /\ StatsIdle

SpecRule == InitRule /\ [][RuleNext]_vars

InitNotify ==
    /\ NotifyInit /\ MergeIdle /\ FilterIdle /\ ScoreIdle /\ RouterIdle /\ MonitorIdle
    /\ RuleIdle /\ AggIdle /\ CycleIdle
    /\ BudgetIdle
    /\ NormIdle
    /\ ScansIdle
    /\ StatsIdle

SpecNotify == InitNotify /\ [][NotifyNext]_vars

InitAggregate ==
    /\ AggInit /\ MergeIdle /\ FilterIdle /\ ScoreIdle /\ RouterIdle /\ MonitorIdle
    /\ RuleIdle /\ NotifyIdle /\ CycleIdle
    /\ BudgetIdle
    /\ NormIdle
    /\ ScansIdle
    /\ StatsIdle

SpecAggregate == InitAggregate /\ [][AggNext]_vars

InitCycle ==
    /\ CycleInit /\ MergeIdle /\ FilterIdle /\ ScoreIdle /\ RouterIdle /\ MonitorIdle
    /\ RuleIdle /\ NotifyIdle /\ AggIdle
    /\ BudgetIdle
    /\ NormIdle
    /\ ScansIdle
    /\ StatsIdle

SpecCycle == InitCycle /\ [][CycleNext]_vars

InitBudget ==
    /\ BudgetInit /\ MergeIdle /\ FilterIdle /\ ScoreIdle /\ RouterIdle /\ MonitorIdle
    /\ RuleIdle /\ NotifyIdle /\ AggIdle /\ CycleIdle
    /\ NormIdle
    /\ ScansIdle
    /\ StatsIdle

SpecBudget == InitBudget /\ [][BudgetNext]_vars

InitNormalize ==
    /\ NormInit /\ MergeIdle /\ FilterIdle /\ ScoreIdle /\ RouterIdle /\ MonitorIdle
    /\ RuleIdle /\ NotifyIdle /\ AggIdle /\ CycleIdle /\ BudgetIdle
    /\ ScansIdle
    /\ StatsIdle

SpecNormalize == InitNormalize /\ [][NormNext]_vars

InitScans ==
    /\ ScansInit /\ MergeIdle /\ FilterIdle /\ ScoreIdle /\ RouterIdle /\ MonitorIdle
    /\ RuleIdle /\ NotifyIdle /\ AggIdle /\ CycleIdle /\ BudgetIdle /\ NormIdle
    /\ StatsIdle

SpecScans == InitScans /\ [][ScansNext]_vars

InitStats ==
    /\ StatsInit /\ MergeIdle /\ FilterIdle /\ ScoreIdle /\ RouterIdle /\ MonitorIdle
    /\ RuleIdle /\ NotifyIdle /\ AggIdle /\ CycleIdle /\ BudgetIdle /\ NormIdle
    /\ ScansIdle

SpecStats == InitStats /\ [][StatsNext]_vars

(***************************************************************************)
(* Properties of AIRouter (checked under SpecRouter).                      *)
(***************************************************************************)

\* C1: analyzeBatch never raises; when it returns, results holds exactly one
\* recommendation per input signal, in input order, results[i].signalId being
\* signals[i].id, whatever the backends did.  While the loop runs, results
\* holds one entry per signal the loop has finished.
BatchOnePerSignal ==
    /\ rPc # "raised"
    /\ rPc \in {"analyze", "fallback"} => Len(results) = idx - 1
    /\ rPc = "delay" => Len(results) = idx
    /\ rPc = "done" =>
         /\ Len(results) = Len(batch)
         /\ \A i \in 1..Len(batch) : results[i].signalId = batch[i].id

\* a batch of two different signals has returned after every backend invocation failed
BatchAllFailedReturned ==
    /\ rPc = "done"
    /\ Len(batch) = 2
    /\ batch[1].id # batch[2].id
    /\ \A i \in 1..2 : analyzed[i] = "threw"

FailedItemIsSynthetic ==
    \A i \in 1..Min(Len(results), Len(analyzed)) :
      /\ analyzed[i] = "threw" =>
           /\ results[i].recommendation = "watch"
           /\ results[i].confidence = 50
           /\ results[i].overallRisk = "high"
           /\ results[i].warnings # <<>>
           /\ results[i].aiModel = "fallback"
           /\ results[i].aiModel \notin RealModels
           /\ results[i].signalId = batch[i].id
      /\ analyzed[i] = "returned" => results[i].aiModel \in RealModels

\* a returned batch with one signal analysed by a backend and one that failed
\* after the fallback backend was tried
BatchWithFailedItemReturned ==
    /\ rPc = "done"
    /\ \E i \in 1..Len(analyzed) : analyzed[i] = "returned"
    /\ \E i \in 1..Len(analyzed) : analyzed[i] = "threw"
    /\ lastAnalyze.status = "threw" /\ Len(lastAnalyze.calls) = 2

(***************************************************************************)
(* Properties of filterSignals (checked under SpecFilter).                 *)
(***************************************************************************)
ThresholdMs == duplicateTokenThreshold * MsPerMinute

\* the key has not survived a pass less than the threshold before this pass
FreshBefore(k) == k \notin DOMAIN prevEmit \/ now - prevEmit[k] >= ThresholdMs

\* the other three conditions of the filter
Qualifies(s) == ~LowConfidence(s) /\ ~ExtremeRisk(s) /\ ~DeadToken(s)

\* C2: a key survives a pass at most once, and only if it has not survived a
\* pass less than duplicateTokenThreshold minutes earlier; a qualifying signal
\* whose key last survived at least the threshold ago (or never) makes the key
\* survive the pass.
DuplicateSuppression ==
    fPc = "returned" =>
      /\ \A i, j \in 1..Len(passOut) :
           i # j => TokenKey(passOut[i]) # TokenKey(passOut[j])
      /\ \A i \in 1..Len(passOut) : FreshBefore(TokenKey(passOut[i]))
      /\ \A i \in 1..Len(passIn) :
           (Qualifies(passIn[i]) /\ FreshBefore(TokenKey(passIn[i]))) =>
             \E j \in 1..Len(passOut) : TokenKey(passOut[j]) = TokenKey(passIn[i])

\* a pass with two qualifying signals of a key that survived a pass exactly the
\* threshold earlier: one of the two survives
SurvivesAgainAfterWindow ==
    /\ fPc = "returned"
    /\ Len(passIn) = 2 /\ Len(passOut) = 1
    /\ TokenKey(passIn[1]) = TokenKey(passIn[2])
    /\ Qualifies(passIn[1]) /\ Qualifies(passIn[2])
    /\ TokenKey(passIn[1]) \in DOMAIN prevEmit
    /\ now - prevEmit[TokenKey(passIn[1])] = ThresholdMs

\* signal i of the pass meets the score, duplicate and dead-token conditions
MeetsOtherConditions(i) ==
    /\ ~LowConfidence(passIn[i])
    /\ ~DeadToken(passIn[i])
    /\ FreshBefore(TokenKey(passIn[i]))
    /\ \A j \in 1..(i - 1) :
         TokenKey(passIn[j]) = TokenKey(passIn[i]) => passIn[j] \notin Range(passOut)

\* C10: among the signals that meet the score, duplicate and dead-token
\* conditions, a signal is dropped if and only if its riskLevel is extreme and
\* its score is below 80.
ExtremeRiskBoundary ==
    fPc = "returned" =>
      \A i \in 1..Len(passIn) :
        MeetsOtherConditions(i) =>
          (passIn[i] \notin Range(passOut)
             <=> (passIn[i].riskLevel = "extreme" /\ RatLt(passIn[i].score, RatInt(80))))

\* a pass dropped an extreme-risk signal of score 79 and kept one of score 80
ExtremeRiskBoundaryHit ==
    /\ fPc = "returned"
    /\ \E i, j \in 1..Len(passIn) :
         /\ MeetsOtherConditions(i) /\ MeetsOtherConditions(j)
         /\ passIn[i].riskLevel = "extreme" /\ passIn[i].score = RatInt(79)
         /\ passIn[i] \notin Range(passOut)
         /\ passIn[j].riskLevel = "extreme" /\ passIn[j].score = RatInt(80)
         /\ passIn[j] \in Range(passOut)

(***************************************************************************)
(* Properties of mergeSignals (checked under SpecMerge).                   *)
(***************************************************************************)
Merged == mPc \in {"merged", "reversed", "again"}

\* C6: the merged signal of a group of two or more has score
\* min(100, average + min((distinct confirming platforms - 1) * 10, 20)) and
\* platformCount equal to the number of distinct confirming platforms.
MergedScoreCountsDistinctPlatforms ==
    Merged =>
      \A i \in 1..Len(mOut) :
        LET group == GroupOf(mIn, TokenKey(mOut[i]))
            distinct == Cardinality(Range(GroupPlatforms(group)))
        IN Len(group) >= 2 =>
             /\ mOut[i].score =
                  RatMin(RatInt(100),
                         RatAdd(AvgScore(group), RatInt(Min((distinct - 1) * 10, 20))))
             /\ mOut[i].metrics.platformCount = distinct

\* scores 70 and 74 from two different platforms merge to score 82, platformCount 2
MergeExample82 ==
    /\ Merged
    /\ Len(mIn) = 2 /\ Len(mOut) = 1
    /\ mIn[1].score = RatInt(70) /\ mIn[2].score = RatInt(74)
    /\ mIn[1].metrics.confirmingPlatforms # mIn[2].metrics.confirmingPlatforms
    /\ mOut[1].score = RatInt(82)
    /\ mOut[1].metrics.platformCount = 2

SameMerge(a, b) ==
    /\ TokenKey(a) = TokenKey(b)
    /\ a.score = b.score
    /\ a.metrics.volumeScore = b.metrics.volumeScore
    /\ a.metrics.priceScore = b.metrics.priceScore
    /\ a.metrics.socialScore = b.metrics.socialScore
    /\ a.metrics.whaleScore = b.metrics.whaleScore
    /\ Range(a.riskFactors) = Range(b.riskFactors)

\* C7: merging the same signals in the reverse order gives, for every token,
\* the same score, the same four sub-scores and the same set of risk factors.
MergeCommutes ==
    mPc \in {"reversed", "again"} =>
      /\ Len(mOut) = Len(mOutRev)
      /\ \A i \in 1..Len(mOut) : \E j \in 1..Len(mOutRev) : SameMerge(mOut[i], mOutRev[j])

\* two signals of one token with different sub-scores and risk factors were
\* merged in both orders
MergedBothOrders ==
    /\ mPc = "reversed"
    /\ Len(mIn) = 2 /\ Len(mOut) = 1
    /\ mIn[1].metrics.volumeScore # mIn[2].metrics.volumeScore
    /\ mIn[1].metrics.priceScore # mIn[2].metrics.priceScore
    /\ mIn[1].score # mIn[2].score
    /\ mOut[1].riskFactors # mOutRev[1].riskFactors

\* C8: merging an already merged signal M with itself leaves platformCount and
\* the score as they are in M.
RemergeKeepsPlatformCount ==
    mPc = "again" =>
      \A i \in 1..Len(mOut) :
        mOut[i].id[1] = "merged" =>
          /\ mOutAgain[i].metrics.platformCount = mOut[i].metrics.platformCount
          /\ mOutAgain[i].score = mOut[i].score

(***************************************************************************)
(* Properties of the scores (checked under SpecScore).                     *)
(***************************************************************************)
ScoreInRange(s) == RatLe(RatInt(0), s.score) /\ RatLe(s.score, RatInt(100))

\* C9: the score of every signal an adapter emits and of every signal
\* mergeSignals returns lies in [0, 100].
ScoresWithinBounds ==
    /\ \A i \in 1..Len(fetched) : ScoreInRange(fetched[i])
    /\ \A i \in 1..Len(merged) : ScoreInRange(merged[i])

\* both adapters and the merge hit the cap: each of the three sums exceeds 100
ScoreCapsHit ==
    /\ sPc = "merged"
    /\ BirdeyeRawScore(rawBird) > 100 /\ DexRawScore(rawDex) > 100
    /\ Len(merged) = 1 /\ merged[1].id[1] = "merged"
    /\ merged[1].score = RatInt(100)

(***************************************************************************)
(* Properties of MultiPlatformMonitor (checked under Spec).                *)
(***************************************************************************)

\* C3: at most one scan cycle is in flight at any time.
ScanCyclesNeverOverlap == ScansInFlight <= 1

(***************************************************************************)
(* The dead-token floor of filterSignals (checked under SpecFilter).       *)
(***************************************************************************)
\* C11: a signal with liquidityUsd < 5000 and volume24h < 1000 is never
\* returned by the filter, whatever its score, risk level or suppression state.
DeadTokenFloor ==
    fPc = "returned" =>
      \A i \in 1..Len(passOut) :
        ~(passOut[i].token.liquidityUsd < 5000 /\ passOut[i].token.volume24h < 1000)

\* a pass dropped a signal that only the dead-token condition can drop: score
\* 85, not suppressed, liquidity 4999 and volume 999
DeadTokenDropped ==
    /\ fPc = "returned"
    /\ \E i \in 1..Len(passIn) :
         /\ passIn[i].token.liquidityUsd = 4999 /\ passIn[i].token.volume24h = 999
         /\ ~LowConfidence(passIn[i]) /\ ~ExtremeRisk(passIn[i])
         /\ TokenKey(passIn[i]) \notin DOMAIN prevEmit
         /\ passIn[i] \notin Range(passOut)

(***************************************************************************)
(* Properties of the rule-based engine (checked under SpecRule).           *)
(***************************************************************************)
\* the score of the analyzed signal is at least n
ScoreAtLeast(n) == RatLe(RatInt(n), ruleIn.score)

ExpectedRawConfidence ==
    RatAdd(ruleIn.score,
           RatInt((IF ruleIn.platformCount >= 2 THEN 5 ELSE 0)
                  + (IF ruleOut.overallRisk = "low" THEN 5 ELSE 0)
                  - (IF ruleOut.overallRisk = "high" THEN 15 ELSE 0)
                  - (IF ruleOut.overallRisk = "extreme" THEN 30 ELSE 0)))

\* C13: the confidence is the score plus 5 if platformCount >= 2, plus 5 if
\* the risk is low, minus 15 if high, minus 30 if extreme, clamped to [0,100];
\* a signal of score 88 and low risk gets strong_buy with confidence >= 88.
ConfidenceClamped ==
    rulePc = "analyzed" =>
      /\ ruleOut.confidence =
           (IF RatLt(ExpectedRawConfidence, RatInt(0)) THEN RatInt(0)
            ELSE IF RatLt(RatInt(100), ExpectedRawConfidence) THEN RatInt(100)
            ELSE ExpectedRawConfidence)
      /\ RatLe(RatInt(0), ruleOut.confidence) /\ RatLe(ruleOut.confidence, RatInt(100))
      /\ (ruleIn.score = RatInt(88) /\ ruleOut.overallRisk = "low") =>
           (ruleOut.recommendation = "strong_buy" /\ RatLe(RatInt(88), ruleOut.confidence))

\* the signal of score 88, low risk, seen on two platforms: strong_buy, 98
Score88LowRiskAnalyzed ==
    /\ rulePc = "analyzed"
    /\ ruleIn.score = RatInt(88) /\ ruleIn.platformCount = 2
    /\ ruleOut.overallRisk = "low"
    /\ ruleOut.recommendation = "strong_buy" /\ ruleOut.confidence = RatInt(98)

(***************************************************************************)
(* Properties of the notification loop (checked under SpecNotify).         *)
(***************************************************************************)
\* the notify predicate for the pair at index i
NotifyPredicate(i) ==
    /\ analyses[i].recommendation \in {"buy", "strong_buy"}
    /\ RatLe(RatInt(minAiConfidence), analyses[i].confidence)
    /\ ~(analyses[i].overallRisk = "extreme" /\ analyses[i].recommendation # "strong_buy")

\* C14: a pair is handed to the notifier if and only if its recommendation is
\* buy or strong_buy, its confidence is at least minAiConfidence, and it is
\* not the case that its overallRisk is extreme while the recommendation is
\* not strong_buy; each such pair is handed once.
NotifiedIffPredicate ==
    /\ \A k \in 1..Len(handed) : NotifyPredicate(handed[k])
    /\ \A k, l \in 1..Len(handed) : k # l => handed[k] # handed[l]
    /\ nPc = "done" =>
         \A i \in 1..Len(analyses) :
           NotifyPredicate(i) => \E k \in 1..Len(handed) : handed[k] = i

\* a finished loop over an extreme-risk buy (not handed) and an extreme-risk
\* strong_buy (handed), both confident enough
ExtremeRiskOnlyStrongBuyNotified ==
    /\ nPc = "done" /\ minAiConfidence = 65
    /\ Len(analyses) = 2 /\ handed = <<2>>
    /\ analyses[1].recommendation = "buy" /\ analyses[1].overallRisk = "extreme"
    /\ analyses[1].confidence = RatInt(65)
    /\ analyses[2].recommendation = "strong_buy" /\ analyses[2].overallRisk = "extreme"
    /\ analyses[2].confidence = RatInt(65)

(***************************************************************************)
(* Properties of start, stop and the failure of a cycle (checked under     *)
(* Spec).                                                                  *)
(***************************************************************************)
\* C15: start() called while stopped triggers one immediate scan, installs
\* one recurring trigger and makes the state running; called while running it
\* changes nothing; at most one recurring trigger exists in every state.
StartIdempotent ==
    /\ [](liveTriggers <= 1)
    /\ [][op' \in {"start", "startWhileRunning"} =>
           IF isRunning
           THEN UNCHANGED <<isRunning, cronJob, scans, started, liveTriggers>>
           ELSE /\ isRunning'
                /\ scans' = [scans EXCEPT !["newListings"] = @ + 1]
                /\ liveTriggers' = liveTriggers + 1]_vars

\* start() was called while running, after the one immediate scan of the
\* first start(): still one scan started and one trigger
StartedTwiceOneTrigger ==
    /\ op = "startWhileRunning"
    /\ isRunning /\ started = 1 /\ liveTriggers = 1

\* a step that calls stop()
StopStep ==
    (op' = "stop") =>
      /\ ~isRunning' /\ liveTriggers' = 0 /\ scans' = scans
      /\ (~isRunning) => UNCHANGED <<isRunning, cronJob, scans, started, liveTriggers>>

\* a step from a stopped state to a stopped state starts no cycle
StoppedStep == (~isRunning /\ ~isRunning') => (started' = started)

\* C16: after stop() the monitor is stopped and no scan cycle starts until
\* start() is called again; stop() when already stopped changes nothing; a
\* cycle in progress is left alone.
StopPreventsNewCycles ==
    /\ [](~isRunning => liveTriggers = 0)
    /\ [][StopStep /\ StoppedStep]_vars

\* stop() was called while a cycle was in flight: the cycle is still there
StoppedWithCycleInFlight ==
    /\ op = "stop" /\ ~isRunning /\ liveTriggers = 0
    /\ started = 1 /\ ScansInFlight = 1

\* C17: a failure during a cycle ends that cycle only: it is caught inside
\* runScan, the monitor stays running with its recurring trigger, and a later
\* tick starts a new cycle.
ScanFailureContained ==
    /\ [](~unhandled)
    /\ [](isRunning => (cronJob /\ liveTriggers = 1))
    /\ [][op' = "scanFails" =>
           /\ UNCHANGED <<isRunning, cronJob, liveTriggers>>
           /\ ScansInFlight' = ScansInFlight - 1]_vars

\* a tick started a new cycle after a cycle failed at its notifications
TickAfterFailedScan ==
    /\ op = "tick" /\ isRunning
    /\ failedScans = 1 /\ started = 2 /\ ScansInFlight = 1

(***************************************************************************)
(* Properties of the aggregation (checked under SpecAggregate).            *)
(***************************************************************************)
\* the signals of the adapters that answered, DexScreener's first
AnsweredSignals == answers["dexscreener"].signals \o answers["birdeye"].signals

\* C18: if an enabled adapter throws, the aggregation still completes and
\* returns the merged, filtered and sorted signals of the adapters that
\* answered; a disabled adapter is never queried.
AdapterFailureIsolated ==
    /\ aggPc # "raised"
    /\ \A p \in AggPlatforms :
         answers[p].status # "notQueried" => platformsEnabled[p]
    /\ aggPc = "returned" =>
         /\ \A p \in AggPlatforms :
              platformsEnabled[p] => answers[p].status \in {"returned", "threw"}
         /\ aggOut = SortByScore(filterSignals(mergeSignals(AnsweredSignals), prevEmit, now).out)

\* DexScreener threw, Birdeye answered, and the call returned Birdeye's signal
ReturnedDespiteFailedAdapter ==
    /\ aggPc = "returned"
    /\ answers["dexscreener"].status = "threw"
    /\ answers["birdeye"].status = "returned"
    /\ Len(aggOut) = 1 /\ aggOut[1].sources = <<"birdeye">>

(***************************************************************************)
(* Properties of the provider selection and the failover of analyze        *)
(* (checked under SpecRouter).                                             *)
(***************************************************************************)
\* the backend the claim expects analyze to invoke first
ExpectedSelection ==
    IF config.primaryProvider = "deepseek" THEN "deepseek"
    ELSE IF config.primaryProvider = "minimax" THEN "minimax"
    ELSE IF config.primaryProvider = "rule-based" THEN "rule-based"
    ELSE IF deepseek THEN "deepseek"
    ELSE IF minimax THEN "minimax"
    ELSE "rule-based"

\* C19: when primaryProvider is not auto the backend invoked first is the
\* configured one, even without credentials; in auto mode it is deepseek if
\* configured, else minimax if configured, else rule-based.
ProviderSelection ==
    /\ lastAnalyze.status # "none" => lastAnalyze.calls[1].provider = ExpectedSelection
    /\ rPc = "fallback" => calls[1].provider = ExpectedSelection

\* primaryProvider deepseek without a DeepSeek key: deepseek was invoked
\* (and failed) although minimax is configured
ForcedProviderWithoutCredentials ==
    /\ lastAnalyze.status # "none"
    /\ config.primaryProvider = "deepseek" /\ ~deepseek /\ minimax
    /\ lastAnalyze.calls[1] = [provider |-> "deepseek", outcome |-> "fail"]

\* C20: when DeepSeek is the selected backend and fails while MiniMax is
\* configured, MiniMax is tried before the rule-based engine.
FailoverTriesMinimaxFirst ==
    (/\ lastAnalyze.status # "none"
     /\ minimax
     /\ lastAnalyze.calls[1] = [provider |-> "deepseek", outcome |-> "fail"]) =>
      \A k \in 1..Len(lastAnalyze.calls) :
        lastAnalyze.calls[k].provider = "rule-based" =>
          \E j \in 1..(k - 1) : lastAnalyze.calls[j].provider = "minimax"

\* with the configuration the monitor constructs and both keys present, a
\* DeepSeek failure is followed by the rule-based engine at once
DeepSeekFailureSkipsMinimax ==
    /\ config = DefaultConfig /\ deepseek /\ minimax
    /\ lastAnalyze.status = "returned"
    /\ lastAnalyze.calls = <<[provider |-> "deepseek", outcome |-> "fail"],
                             [provider |-> "rule-based", outcome |-> "ok"]>>

(***************************************************************************)
(* Properties of the batch of a cycle (checked under SpecCycle).           *)
(***************************************************************************)
\* C21: the batch holds the maxSignalsPerBatch highest-scoring signals of the
\* cycle: no signal left out of the batch has a strictly higher score than a
\* signal in the batch.
BatchKeepsTopScores ==
    cPc = "batched" =>
      \A i \in 1..Len(uniqueSignals), j \in 1..Len(cycleBatch) :
        uniqueSignals[i] \notin Range(cycleBatch) =>
          ~RatLt(cycleBatch[j].score, uniqueSignals[i].score)

\* the cap 1 on a new listing of score 70 and a trending signal of score 90
\* keeps the new listing
LowerScoredNewListingKept ==
    /\ cPc = "batched" /\ maxSignalsPerBatch = 1
    /\ Len(newListings) = 1 /\ newListings[1].score = RatInt(70)
    /\ Len(trendingSignals) = 1 /\ trendingSignals[1].score = RatInt(90)
    /\ cycleBatch = newListings

(***************************************************************************)
(* The order and the keys of an aggregation's result (checked under        *)
(* SpecAggregate).                                                         *)
(***************************************************************************)
\* C22: an aggregation returns a list sorted in non-increasing order of score
\* in which every (chain, tokenAddress) key occurs at most once.
AggregationSortedUniqueKeys ==
    aggPc = "returned" =>
      /\ \A i \in 1..(Len(aggOut) - 1) : ~RatLt(aggOut[i].score, aggOut[i + 1].score)
      /\ \A i, j \in 1..Len(aggOut) : i # j => TokenKey(aggOut[i]) # TokenKey(aggOut[j])

\* three keys returned, the merged one (first in the filter's order) second
MergedSignalSortedSecond ==
    /\ aggPc = "returned" /\ Len(aggOut) = 3
    /\ passOut[1] = aggOut[2] /\ aggOut[2].id[1] = "merged"
    /\ aggOut[1].score = RatInt(85) /\ aggOut[2].score = RatInt(80)
    /\ aggOut[3].score = RatInt(70)

(***************************************************************************)
(* Properties of the suppression map (checked under SpecFilter).           *)
(***************************************************************************)
\* C23: after a filter pass at time now the suppression map holds no entry
\* older than now - 24h, every entry younger than 24h is still there with
\* its time, and a pruned key is past its suppression window.
SuppressionMapPruned ==
    fPc = "returned" =>
      /\ \A k \in DOMAIN processedTokens : processedTokens[k] >= now - 86400000
      /\ \A k \in DOMAIN lastEmit :
           lastEmit[k] > now - 86400000 =>
             (k \in DOMAIN processedTokens /\ processedTokens[k] = lastEmit[k])
      /\ \A k \in DOMAIN lastEmit \ DOMAIN processedTokens :
           now - lastEmit[k] >= 60 * 60000

\* a key that survived a pass more than 24h ago is gone from the map
OldEntryPruned ==
    /\ fPc = "returned"
    /\ \E k \in DOMAIN lastEmit :
         k \notin DOMAIN processedTokens /\ lastEmit[k] < now - 86400000

\* signal i of the pass passes the score, risk and dead-token conditions
PassesScoreRiskAndFloor(i) ==
    /\ ~RatLt(passIn[i].score, RatInt(60))
    /\ ~(passIn[i].riskLevel = "extreme" /\ RatLt(passIn[i].score, RatInt(80)))
    /\ ~(passIn[i].token.liquidityUsd < 5000 /\ passIn[i].token.volume24h < 1000)

\* a signal of key k passes all four conditions in this pass
KeySurvives(k) ==
    \E i \in 1..Len(passIn) :
      TokenKey(passIn[i]) = k /\ PassesScoreRiskAndFloor(i) /\ FreshBefore(k)

\* the keys of the pass and of the map
KeysInPlay ==
    {TokenKey(passIn[i]) : i \in 1..Len(passIn)} \cup DOMAIN prevEmit
      \cup DOMAIN processedTokens

\* C24: a pass sets the entry of a key to the pass's time exactly when a
\* signal of that key passes all four conditions; the entry of any other key,
\* also of a key whose signals were all dropped, keeps its time (or is pruned
\* because it is older than 24h, never created).
OnlySurvivorsRecorded ==
    fPc = "returned" =>
      \A k \in KeysInPlay :
        IF KeySurvives(k)
        THEN k \in DOMAIN processedTokens /\ processedTokens[k] = now
        ELSE /\ k \in DOMAIN processedTokens =>
                  (k \in DOMAIN prevEmit /\ processedTokens[k] = prevEmit[k])
             /\ (k \in DOMAIN prevEmit /\ k \notin DOMAIN processedTokens) =>
                  prevEmit[k] < now - 86400000

\* a pass over a dropped extreme-risk signal of a key never recorded and a
\* surviving signal of another key: only the survivor's key is recorded
DroppedSignalNotRecorded ==
    /\ fPc = "returned" /\ Len(passIn) = 2 /\ Len(passOut) = 1
    /\ prevEmit = EmptyMap
    /\ passIn[1].riskLevel = "extreme" /\ passIn[1].score = RatInt(79)
    /\ passOut[1] = passIn[2]
    /\ DOMAIN processedTokens = {TokenKey(passIn[2])}
    /\ TokenKey(passIn[1]) # TokenKey(passIn[2])

\* the entry of key k is the same before and after the step
EntryUntouched(k) ==
    /\ (k \in DOMAIN processedTokens) = (k \in DOMAIN processedTokens')
    /\ (k \in DOMAIN processedTokens) => (processedTokens'[k] = processedTokens[k])

\* a pass in which no signal of the key of signal i survives leaves that entry
DroppedKeyStep(i) ==
    (~KeySurvives(TokenKey(passIn[i])))' => EntryUntouched(TokenKey(passIn'[i]))

\* the statement without the pruning: the entry of a dropped signal's key is
\* the same after the pass as before it
DroppedSignalEntryUntouched ==
    [][(fPc = "idle" /\ fPc' = "returned") =>
         \A i \in 1..Len(passIn') : DroppedKeyStep(i)]_vars

(***************************************************************************)
(* Properties of analyzeBatch and of the counters (checked under           *)
(* SpecRouter).                                                            *)
(***************************************************************************)
\* C25: in analyzeBatch the step that moves from item i to item i+1 is the end
\* of a delay, whether the analysis of item i returned or threw.
DelayBetweenItems ==
    [][(idx >= 1 /\ idx' = idx + 1) => rPc = "delay"]_vars

\* the second item is about to be analysed right after the first one threw
NextItemAfterThrow ==
    /\ rPc = "analyze" /\ idx = 2
    /\ analyzed = <<"threw">>
    /\ results = <<createFallbackResult(batch[1])>>

\* C26: outside a call of analyze, each backend's success counter is the
\* number of its invocations that returned and its failure counter the number
\* of its invocations that threw, the invocations as fallback included.
CountersMatchInvocations ==
    rPc # "fallback" =>
      \A b \in Backends : stats[b] = invocations[b]

\* the rule-based engine answered as the fallback of a failed DeepSeek call
\* and its success counter is still 0
FallbackSuccessNotCounted ==
    /\ lastAnalyze.status = "returned"
    /\ lastAnalyze.calls = <<[provider |-> "deepseek", outcome |-> "fail"],
                             [provider |-> "rule-based", outcome |-> "ok"]>>
    /\ invocations["rule-based"].success = 1
    /\ stats["rule-based"].success = 0

(***************************************************************************)
(* Properties of the adapters' urgency and risk level (checked under       *)
(* SpecScore).                                                             *)
(***************************************************************************)
\* the urgency of a signal of the given score, age and volume as stated for
\* every adapter
StatedUrgency(score, ageMinutes, volume24h) ==
    IF ~RatLt(score, RatInt(90)) \/ (ageMinutes <= 1440 /\ volume24h > 100000)
    THEN "critical"
    ELSE IF ~RatLt(score, RatInt(75)) THEN "high"
    ELSE IF ~RatLt(score, RatInt(60)) THEN "medium"
    ELSE "low"

\* C27: the signal of either adapter has urgency critical iff its score is at
\* least 90 or the token is new (age <= 24h) with volume24h > 100k, otherwise
\* high iff score >= 75, otherwise medium iff score >= 60, otherwise low.
UrgencySameInEveryAdapter ==
    /\ Len(fetched) >= 1 =>
         fetched[1].urgency =
           StatedUrgency(fetched[1].score, rawDex.ageMinutes, rawDex.volume24h)
    /\ Len(fetched) >= 2 =>
         fetched[2].urgency =
           StatedUrgency(fetched[2].score, rawBird.ageMinutes, rawBird.volume24h)

\* a new pair with volume24h 150000 and score 80 leaves DexScreener's adapter
\* with urgency high
DexNewTokenHighVolumeOnlyHigh ==
    /\ Len(fetched) >= 1
    /\ rawDex.ageMinutes = 30 /\ rawDex.volume24h = 150000
    /\ fetched[1].score = RatInt(80)
    /\ fetched[1].urgency = "high"

\* the stated content of one adapter's risk assessment
StatedRisk(signal, bands) ==
    /\ BandSum(bands) \in 0..100
    /\ (BandSum(bands) < 25) = (signal.riskLevel = "low")
    /\ Len(signal.riskFactors) = Len(bands)
    /\ \A i \in 1..Len(bands) : signal.riskFactors[i] = bands[i][2]

\* C28: in either adapter a riskScore below 25 gives riskLevel low and one of
\* at least 25 gives medium or higher; the riskScore is in [0,100] and
\* riskFactors has one entry per triggered band.
AdapterRiskLevelMapping ==
    /\ Len(fetched) >= 1 => StatedRisk(fetched[1], DexRiskBands(rawDex))
    /\ Len(fetched) >= 2 => StatedRisk(fetched[2], BirdeyeRiskBands(rawBird))

\* a pair whose only triggered band is the market cap (riskScore 20) leaves
\* DexScreener's adapter with riskLevel medium
DexRiskScore20Medium ==
    /\ Len(fetched) >= 1
    /\ BandSum(DexRiskBands(rawDex)) = 20
    /\ fetched[1].riskFactors = <<"marketCap<100k">>
    /\ fetched[1].riskLevel = "medium"

(***************************************************************************)
(* Properties of the rule-based entry strategy and risk analysis (checked  *)
(* under SpecRule).                                                        *)
(***************************************************************************)
\* the row of the stated decision table for a risk level and the signal's score
StatedSizing(risk) ==
    IF risk = "low" /\ ScoreAtLeast(80) THEN <<"large", 1000>>
    ELSE IF risk = "medium" /\ ScoreAtLeast(70) THEN <<"medium", 500>>
    ELSE <<"small", 200>>

\* C29: for a token that is not new (positionSize, maxPositionUsd) is the row
\* of the table: (large, 1000) if overallRisk is low and score >= 80,
\* (medium, 500) if it is medium and score >= 70, else (small, 200); for a
\* new token positionSize is small and maxPositionUsd is the row's cap, at
\* most 300; positionSize is small whenever maxPositionUsd <= 300.
PositionSizingTable ==
    rulePc = "analyzed" =>
      /\ ~ruleIn.isNewToken =>
           <<ruleOut.positionSize, ruleOut.maxPositionUsd>>
             = StatedSizing(ruleOut.overallRisk)
      /\ ruleIn.isNewToken =>
           /\ ruleOut.positionSize = "small"
           /\ ruleOut.maxPositionUsd <= 300
           /\ ruleOut.maxPositionUsd
                \in {StatedSizing(ruleOut.overallRisk)[2], 300}
      /\ ruleOut.maxPositionUsd <= 300 => ruleOut.positionSize = "small"

\* a new token of low risk and score 90 gets a small position of 300
NewLowRiskTokenSizedSmall ==
    /\ rulePc = "analyzed"
    /\ ruleIn.isNewToken /\ ruleIn.score = RatInt(90)
    /\ ruleOut.overallRisk = "low"
    /\ ruleOut.positionSize = "small" /\ ruleOut.maxPositionUsd = 300

\* the level of the average of three sub-scores, by their sum
LevelOfAverage(sum) ==
    IF sum >= 3 * 60 THEN "extreme"
    ELSE IF sum >= 3 * 40 THEN "high"
    ELSE IF sum >= 3 * 25 THEN "medium"
    ELSE "low"

\* C30: the reported overallRisk is the level of the average of the three
\* reported sub-scores (rugRisk capped at 100, volatilityRisk,
\* liquidityRisk) under the thresholds 60, 40 and 25.
OverallRiskMatchesReportedScores ==
    rulePc = "analyzed" =>
      ruleOut.overallRisk =
        LevelOfAverage(ruleOut.rugRisk + ruleOut.volatilityRisk + ruleOut.liquidityRisk)

\* rugRisk 110 reported as 100: the reported sub-scores sum to 180, the level
\* was computed on 190 and is extreme
CappedRugRiskOnThreshold ==
    /\ rulePc = "analyzed"
    /\ rugRisk(ruleIn) = 110 /\ ruleOut.rugRisk = 100
    /\ ruleOut.rugRisk + ruleOut.volatilityRisk + ruleOut.liquidityRisk = 180
    /\ ruleOut.overallRisk = "extreme"

(***************************************************************************)
(* Properties of the Birdeye request budget (checked under SpecBudget).    *)
(***************************************************************************)
\* C31: requestCount stays in 0..100, getRemainingRequests() is not negative,
\* no more than 100 requests are issued within a day, and a data call made
\* with the budget exhausted issues no request and returns [] (null for
\* getTokenInfo).
RequestBudgetRespected ==
    /\ requestCount \in 0..100
    /\ getRemainingRequests >= 0
    /\ requestsToday <= 100
    /\ (lastCall # NoCall /\ lastCall.exhausted) =>
         (~lastCall.issued /\ lastCall.result = EmptyResult(lastCall.call))

\* the 101st call of a day was refused
CallRefusedAtLimit ==
    /\ lastCall # NoCall /\ lastCall.exhausted
    /\ requestCount = 100 /\ requestsToday = 100
    /\ ~lastCall.issued

(***************************************************************************)
(* Properties of normalizeResult (checked under SpecNormalize).            *)
(***************************************************************************)
\* the normalised value out of a field of named values: in the list, the
\* reported value if that is in the list and the default otherwise
NamedFieldNormalised(raw, out, list, default) ==
    /\ out \in list
    /\ out = (IF raw \in {Str(s) : s \in list} THEN raw.s ELSE default)

\* C32: in a normalised response recommendation, positionSize, overallRisk
\* and timeHorizon are values of their lists; a value reported from the list
\* is kept, any other or missing value becomes watch, small, medium and short.
NamedFieldsNormalised ==
    (zPc = "normalized" /\ normalized.threw = "no") =>
      /\ NamedFieldNormalised(parsed.recommendation, normalized.recommendation,
                              {"strong_buy", "buy", "watch", "avoid"}, "watch")
      /\ NamedFieldNormalised(Field(parsed.entryStrategy, "positionSize"),
                              normalized.positionSize,
                              {"small", "medium", "large"}, "small")
      /\ NamedFieldNormalised(Field(parsed.riskAnalysis, "overallRisk"),
                              normalized.overallRisk,
                              {"low", "medium", "high", "extreme"}, "medium")
      /\ NamedFieldNormalised(Field(parsed.entryStrategy, "timeHorizon"),
                              normalized.timeHorizon,
                              {"scalp", "short", "medium", "long"}, "short")

\* an unknown recommendation and no entryStrategy are replaced by the
\* defaults while the reported overallRisk extreme is kept
UnknownValuesDefaulted ==
    /\ zPc = "normalized" /\ normalized.threw = "no"
    /\ parsed.recommendation = Str("other") /\ parsed.entryStrategy = Missing
    /\ Field(parsed.riskAnalysis, "overallRisk") = Str("extreme")
    /\ normalized.recommendation = "watch"
    /\ normalized.positionSize = "small" /\ normalized.timeHorizon = "short"
    /\ normalized.overallRisk = "extreme"

\* the normalised value out of a reported number: the number within 0..100,
\* 0 below and 100 above
NumberNormalised(raw, out) ==
    raw.t = "number" =>
      out = Num(IF raw.n < 0 THEN 0 ELSE IF raw.n > 100 THEN 100 ELSE raw.n)

\* C40: a reported confidence, rugRisk, volatilityRisk or liquidityRisk within
\* 0..100 is unchanged in the normalised response; one out of range is
\* clamped into 0..100.
NumbersKeptOrClamped ==
    (zPc = "normalized" /\ normalized.threw = "no") =>
      /\ NumberNormalised(parsed.confidence, normalized.confidence)
      /\ NumberNormalised(Field(parsed.riskAnalysis, "rugRisk"), normalized.rugRisk)
      /\ NumberNormalised(Field(parsed.riskAnalysis, "volatilityRisk"),
                          normalized.volatilityRisk)
      /\ NumberNormalised(Field(parsed.riskAnalysis, "liquidityRisk"),
                          normalized.liquidityRisk)

\* a reported confidence and rugRisk of 0 come out as 50
ZeroReplacedByDefault ==
    /\ zPc = "normalized" /\ normalized.threw = "no"
    /\ parsed.confidence = Num(0)
    /\ Field(parsed.riskAnalysis, "rugRisk") = Num(0)
    /\ normalized.confidence = Num(50) /\ normalized.rugRisk = Num(50)

(***************************************************************************)
(* Properties of failed notifications (checked under SpecNotify).          *)
(***************************************************************************)
\* the number of times pair i was handed to the notifier
TimesHanded(i) == Cardinality({k \in 1..Len(handed) : handed[k] = i})

\* C33: a failed send never ends the loop; when the loop is done every
\* qualifying pair after a failed one was handed to the notifier, and the
\* failed pair was handed over once.
SendFailureDoesNotStopCycle ==
    /\ nPc # "raised"
    /\ nPc = "done" =>
         \A k \in 1..Len(failedSends) :
           /\ TimesHanded(failedSends[k]) = 1
           /\ \A j \in (failedSends[k] + 1)..Len(analyses) :
                shouldNotify(analyses[j], minAiConfidence) => TimesHanded(j) = 1

\* the send of the first pair failed and the second pair was handed over
SecondPairSentAfterFailure ==
    /\ nPc = "done" /\ Len(analyses) = 2
    /\ failedSends = <<1>> /\ handed = <<1, 2>>

(***************************************************************************)
(* Integer scores (checked under SpecMerge).                               *)
(***************************************************************************)
\* the score is a whole number of 0..100
IntegerScore(s) == s.score.d = 1 /\ s.score.n \in 0..100

\* C34: the score of every signal mergeSignals returns for integer-scored
\* members is an integer in 0..100.
MergedScoresAreIntegers ==
    (Merged /\ \A i \in 1..Len(mIn) : IntegerScore(mIn[i])) =>
      \A i \in 1..Len(mOut) : IntegerScore(mOut[i])

\* scores 70 and 75 from two platforms merge to 82.5
MergedScoreHalf ==
    /\ Merged /\ Len(mIn) = 2 /\ Len(mOut) = 1
    /\ mIn[1].score = RatInt(70) /\ mIn[2].score = RatInt(75)
    /\ mOut[1].score = RatNorm(165, 2)

(***************************************************************************)
(* Properties of scan cycles sharing one aggregator (checked under         *)
(* SpecScans).                                                             *)
(***************************************************************************)
\* C35: a token that passed the filter in a cycle and was left out of that
\* cycle's batch by the cap passes the filter of the first aggregator call of
\* a later cycle if its signal qualifies again.
CappedOutTokenPassesAgain ==
    (lastPass # NoPass /\ lastPass.call = "listings") =>
      \A i \in 1..Len(lastPass.input) :
        (TokenKey(lastPass.input[i]) \in lastPass.capped /\ Qualifies(lastPass.input[i]))
          => lastPass.input[i] \in Range(lastPass.out)

\* cycle 1 returned [Y 90, X 70] and analysed only Y; less than the threshold
\* later X, never analysed, is dropped by the first call of cycle 2
CappedOutTokenSuppressed ==
    /\ cyc[1].pc = "batched" /\ cyc[1].kind = "runScan"
    /\ Len(cyc[1].newListings) = 2 /\ Len(cyc[1].batch) = 1
    /\ lastPass # NoPass /\ lastPass.call = "listings" /\ lastPass.scan = 2
    /\ now - cyc[1].t1 < ThresholdMs
    /\ lastPass.capped = {TokenKey(cyc[1].newListings[2])}
    /\ lastPass.input = <<cyc[1].newListings[2]>>
    /\ lastPass.out = <<>>

\* both aggregator calls of cycle s have returned, less than the threshold apart
CallsWithinThreshold(s) ==
    cyc[s].pc \in {"trended", "batched"} /\ cyc[s].t2 - cyc[s].t1 < ThresholdMs

\* C36: when both aggregator calls of a cycle are made less than the
\* threshold apart, no key returned by aggregateNewListings is returned by
\* aggregateTrendingSignals, and the concatenation has unique keys before
\* deduplicateByToken.
CycleListsShareNoKey ==
    \A s \in ScanIds :
      CallsWithinThreshold(s) =>
        /\ KeysOf(cyc[s].newListings) \cap KeysOf(cyc[s].trendingSignals) = {}
        /\ deduplicateByToken(cyc[s].newListings \o cyc[s].trendingSignals)
             = cyc[s].newListings \o cyc[s].trendingSignals

\* the trending call was handed a key the new-listings call of the same
\* cycle had returned, and did not return it
TrendingDropsListedKey ==
    /\ lastPass # NoPass /\ lastPass.call = "trending"
    /\ CallsWithinThreshold(lastPass.scan)
    /\ KeysOf(lastPass.input) \cap KeysOf(cyc[lastPass.scan].newListings) # {}
    /\ KeysOf(lastPass.out) \cap KeysOf(cyc[lastPass.scan].newListings) = {}

\* C37: whatever the interleaving of the cycles, two passes of the same key
\* through the filter are at least duplicateTokenThreshold minutes apart.
KeyPassesOncePerWindow ==
    \A k \in DOMAIN passLog :
      \A i, j \in 1..Len(passLog[k]) :
        i < j => passLog[k][j] - passLog[k][i] >= ThresholdMs

\* a runScan cycle and a manualScan are in flight at once; the key the first
\* one let through was handed to the filter by the second and dropped
OverlappingScanSuppressed ==
    /\ cyc[1].pc = "listed" /\ cyc[2].pc = "listed"
    /\ cyc[1].kind = "runScan" /\ cyc[2].kind = "manualScan"
    /\ lastPass # NoPass /\ lastPass.scan = 2
    /\ KeysOf(cyc[1].newListings) \cap KeysOf(lastPass.input) # {}
    /\ lastPass.out = <<>>
    /\ \A k \in KeysOf(lastPass.input) : Len(passLog[k]) = 1

(***************************************************************************)
(* Properties of the running statistics (checked under SpecStats).         *)
(***************************************************************************)
\* no counter is smaller after a step than before it
CountersGrow ==
    /\ monitorStats'.totalSignals >= monitorStats.totalSignals
    /\ monitorStats'.totalAnalyzed >= monitorStats.totalAnalyzed
    /\ monitorStats'.totalSent >= monitorStats.totalSent

\* the counters are ordered, and a cycle that returned after its analysis
\* added its batch size to totalAnalyzed
CountersOrdered ==
    /\ monitorStats.totalSent <= monitorStats.totalAnalyzed
    /\ monitorStats.totalAnalyzed <= monitorStats.totalSignals
    /\ \A r \in DOMAIN runs :
         (runs[r].pc = "returned" /\ runs[r].batch > 0) =>
           runs[r].analyzedAdded = runs[r].batch

\* C38: in every reachable state, cycles overlapping or not, totalSent <=
\* totalAnalyzed <= totalSignals; no step decreases a counter; a cycle that
\* completes without exception has added exactly its batch size to
\* totalAnalyzed.
StatisticsConsistent == [](CountersOrdered) /\ [][CountersGrow]_vars

\* two cycles overlapped and both returned: 4 signals, 4 analysed, 3 sent
TwoOverlappingCyclesCounted ==
    /\ runs[1].pc = "returned" /\ runs[2].pc = "returned" /\ runs[2].overlapped
    /\ runs[1].batch = 2 /\ runs[2].batch = 2
    /\ monitorStats = [totalSignals |-> 4, totalAnalyzed |-> 4, totalSent |-> 3]

(***************************************************************************)
(* The rule-based engine in front of the notifier (checked under SpecRule):*)
(* shouldNotify applied to the result of analyze, and to the fallback      *)
(* result the router builds when an analysis fails.                        *)
(***************************************************************************)
\* the fallback result for the analysed signal, its confidence as a rational
FallbackAnalysis ==
    [createFallbackResult([id |-> "s1"]) EXCEPT !.confidence = RatInt(@)]

\* C39: with the rule-based engine, a signal that shouldNotify accepts (for
\* any configured minimum confidence) has score >= 75 and overall risk
\* low or medium; a result of high or extreme risk is never accepted, nor
\* is the synthetic fallback result.
RuleBasedNotifiedAreSafe ==
    rulePc = "analyzed" =>
      \A m \in MinAiConfidenceValues :
        /\ shouldNotify(ruleOut, m) =>
             /\ RatLe(RatInt(75), ruleIn.score)
             /\ ruleOut.overallRisk \in {"low", "medium"}
        /\ ~shouldNotify(FallbackAnalysis, m)

\* a buy of medium risk at score exactly 75 is notified under the default
\* minimum confidence
MediumRiskBuyAt75Notified ==
    /\ rulePc = "analyzed"
    /\ ruleIn.score = RatInt(75)
    /\ ruleOut.recommendation = "buy" /\ ruleOut.overallRisk = "medium"
    /\ shouldNotify(ruleOut, 65)

====
